---- MODULE Spec2Model ----
(***************************************************************************)
(* Model of gack: the pooled detection store (src/gack/database.py) and    *)
(* the per-camera pose streamer (src/gack/pose_stream.py).                 *)
(*                                                                         *)
(* SpecPool   : asyncio tasks of one event loop calling initialize(),      *)
(*              get_connection() and close() on one DatabaseConnectionPool.*)
(*              A step is the code between two suspension points.          *)
(* SpecStream : the camera worker threads of pose_stream.main(), each      *)
(*              running PoseStreamer.stream() against the started store,   *)
(*              the wall clock and the interrupt handlers.  A step is the  *)
(*              code up to the return of the next blocking call.           *)
(***************************************************************************)
EXTENDS Integers, Sequences, FiniteSets, TLC

\* ------------------------------------------------------------------ bounds
NTasks == 3            \* tasks sharing the pool
max_connections == 2   \* DatabaseConnectionPool(max_connections=...)
MaxCloses == 1         \* close() calls explored
NCams == 2             \* configured cameras (entries of CAMERAS)
TicksPerSecond == 2    \* resolution of the clock and of the waits
MaxTime == 4           \* the clock is followed up to this tick
MaxBackoff == 5        \* largest RECONNECT_BACKOFF_MAX explored, in ticks
MaxDet == 1            \* most persons in one inference result
MaxWaits == 4          \* waits of one reconnect episode that are recorded
FPS == 1               \* FPS, frames per second
MainTicks == 2         \* ticks of the clock followed while main() runs
MaxRows == 2           \* rows the clients of the store API insert
MaxStamp == 3          \* latest instant of a client's timestamp, in ticks
MaxTol == 2            \* largest tolerance_seconds of a query, in ticks
MaxLimit == 1          \* largest limit of a query

Tasks == 1..NTasks
Cameras == 1..NCams

\* ------------------------------------------------------------------- state
VARIABLES
    initialized,   \* DatabaseConnectionPool._initialized
    lockHolder,    \* DatabaseConnectionPool._lock: the task holding it, 0 when free
    lockWaiters,   \* tasks queued on _lock, first come first served
    pool,          \* DatabaseConnectionPool._pool: the idle connections, a FIFO
    open,          \* physical connections created and not yet closed
    nextConn,      \* identity of the next connection aiosqlite.connect returns
    closeCalls,    \* number of close() calls made so far
    tpc,           \* per task: where it is suspended
    tconn,         \* per task: local variable conn (0: none)
    tloop,         \* per task: iterations of initialize()'s for loop completed
    tfromGet,      \* per task: its get_connection() scope went through initialize()
    raised,        \* per task: its last call ended with an exception
    made,          \* history: connections each task created since the last close()
    idleBefore,    \* history: idle connections just before the task's acquisition
    disturbed,     \* history: another task changed the pool during the task's scope
    shutdown_event,        \* main(): the shared threading.Event
    clock,                 \* time.time(), in ticks
    records,               \* the detections table, in insertion order
    max_reconnect_backoff, \* RECONNECT_BACKOFF_MAX, in ticks
    db,                    \* SAVE_TO_DB: the streamers are given the store
    rtsp_url,              \* per camera: PoseStreamer.rtsp_url is set
    spc,                   \* per camera: the blocking call its worker is in
    shutdown,              \* per camera: PoseStreamer.shutdown
    frame_number,          \* per camera: PoseStreamer.frame_number
    last_output_time,      \* per camera: stream()'s local last_output_time
    wait_time,             \* per camera: _attempt_reconnect()'s local wait_time
    ret,                   \* per camera: ret of the last cap.read()
    detections,            \* per camera: len(detections) of the last inference
    cap,                   \* per camera: state of the handle PoseStreamer.cap
    sconn,                 \* per camera: pooled connection save_detection holds
    startTime,             \* history: clock when stream() started
    emitTimes,             \* history: clock of every frame that passed the gate
    waits,                 \* history: time.sleep arguments of the reconnect episode
    dropped,               \* history: save attempts that raised
    process,               \* per camera: the ffmpeg sink PoseStreamer.process
    ffmpeg_threads,        \* per camera: the sink's output-reader threads
    mpc,                   \* main(): where the supervisor is
    call,                  \* the store call a client made last, with its arguments
    result,                \* what that call returned
    saved                  \* history: the arguments of every save_detection call

poolVars == <<initialized, lockHolder, lockWaiters, pool, open, nextConn, closeCalls>>
taskVars == <<tpc, tconn, tloop, tfromGet, raised>>
histVars == <<made, idleBefore, disturbed>>
cfgVars == <<max_reconnect_backoff, db, rtsp_url>>
gateVars == <<frame_number, last_output_time, emitTimes>>
rcVars == <<wait_time, waits, cap>>
storeVars == <<records, sconn, dropped>>
sinkVars == <<process, ffmpeg_threads>>
outerVars == <<mpc, call, result, saved>>
streamVars == <<shutdown_event, clock, cfgVars, spc, shutdown, gateVars, rcVars,
                storeVars, ret, detections, startTime, sinkVars, outerVars>>
vars == <<poolVars, taskVars, histVars, streamVars>>

RECURSIVE SumOver(_, _)
SumOver(f, S) ==
    IF S = {} THEN 0
    ELSE LET x == CHOOSE y \in S : TRUE IN f[x] + SumOver(f, S \ {x})

SeqToSet(q) == {q[i] : i \in 1..Len(q)}

\* asyncio.Queue.full() for maxsize = max_connections
Full(q) == Len(q) >= max_connections

PoolObject ==
    /\ initialized = FALSE
    /\ lockHolder = 0
    /\ lockWaiters = <<>>
    /\ pool = <<>>
    /\ open = {}
    /\ nextConn = 1
    /\ closeCalls = 0

NoTasks ==
    /\ tpc = [t \in Tasks |-> "idle"]
    /\ tconn = [t \in Tasks |-> 0]
    /\ tloop = [t \in Tasks |-> 0]
    /\ tfromGet = [t \in Tasks |-> FALSE]
    /\ raised = [t \in Tasks |-> FALSE]
    /\ made = [t \in Tasks |-> 0]
    /\ idleBefore = [t \in Tasks |-> 0]
    /\ disturbed = [t \in Tasks |-> FALSE]

\* No camera worker exists.
NoStreams ==
    /\ shutdown_event = FALSE
    /\ clock = 0
    /\ records = <<>>
    /\ max_reconnect_backoff = MaxBackoff
    /\ db = FALSE
    /\ rtsp_url = [s \in Cameras |-> FALSE]
    /\ spc = [s \in Cameras |-> "none"]
    /\ shutdown = [s \in Cameras |-> FALSE]
    /\ frame_number = [s \in Cameras |-> 0]
    /\ last_output_time = [s \in Cameras |-> 0]
    /\ wait_time = [s \in Cameras |-> 0]
    /\ ret = [s \in Cameras |-> "none"]
    /\ detections = [s \in Cameras |-> 0]
    /\ cap = [s \in Cameras |-> "open"]
    /\ sconn = [s \in Cameras |-> 0]
    /\ startTime = [s \in Cameras |-> 0]
    /\ emitTimes = [s \in Cameras |-> <<>>]
    /\ waits = [s \in Cameras |-> <<>>]
    /\ dropped = [s \in Cameras |-> 0]
    /\ process = [s \in Cameras |-> "running"]
    /\ ffmpeg_threads = [s \in Cameras |-> "running"]
    /\ mpc = <<"none">>
    /\ call = <<"none">>
    /\ result = <<>>
    /\ saved = <<>>

\* History of scoped acquisitions, recorded at the end of every step of task t.
Track(t) ==
    /\ idleBefore' = [u \in Tasks |->
          IF u = t /\ tpc[t] # "holding" /\ tpc'[t] = "holding" THEN Len(pool') + 1
          ELSE IF u = t /\ tpc'[t] = "idle" THEN 0
          ELSE idleBefore[u]]
    /\ disturbed' = [u \in Tasks |->
          IF u = t THEN (IF tpc'[t] \in {"holding", "put"} THEN disturbed[t] ELSE FALSE)
          ELSE disturbed[u] \/ (tpc[u] \in {"holding", "put"} /\ pool' # pool)]

\* ------------------------------------------------- get_connection: the get
\* A get that hands out the first idle connection and leaves it in the queue.
GetAttemptPeeks(t, q) ==
    IF q # <<>>
    THEN /\ pool' = q
         /\ tconn' = [tconn EXCEPT ![t] = Head(q)]
         /\ tpc' = [tpc EXCEPT ![t] = "holding"]
    ELSE /\ pool' = q
         /\ tconn' = [tconn EXCEPT ![t] = 0]
         /\ tpc' = [tpc EXCEPT ![t] = "get"]

\* conn = await self._pool.get() on the queue q: taken at once when q is not empty.
GetAttempt(t, q) ==
    IF q # <<>>
    THEN /\ pool' = Tail(q)
         /\ tconn' = [tconn EXCEPT ![t] = Head(q)]
         /\ tpc' = [tpc EXCEPT ![t] = "holding"]
    ELSE /\ pool' = q
         /\ tconn' = [tconn EXCEPT ![t] = 0]
         /\ tpc' = [tpc EXCEPT ![t] = "get"]

\* initialize() returns, to get_connection() (g) or to the caller.
AfterInit(t, g, q) ==
    IF g THEN GetAttempt(t, q)
    ELSE /\ pool' = q
         /\ tconn' = [tconn EXCEPT ![t] = 0]
         /\ tpc' = [tpc EXCEPT ![t] = "idle"]

\* ------------------------------------------------------------- initialize
\* The body of "async with self._lock" in initialize(), entered holding the lock.
InitBodyNoCheck(t, g) ==
    /\ lockHolder' = t
    /\ tpc' = [tpc EXCEPT ![t] = "create"]
    /\ tloop' = [tloop EXCEPT ![t] = 0]
    /\ tconn' = [tconn EXCEPT ![t] = 0]
    /\ UNCHANGED <<initialized, pool, open, nextConn, made>>

InitBody(t, g) ==
    IF initialized
    THEN /\ lockHolder' = 0
         /\ AfterInit(t, g, pool)
         /\ UNCHANGED <<initialized, open, nextConn, tloop, made>>
    ELSE /\ lockHolder' = t
         /\ tpc' = [tpc EXCEPT ![t] = "create"]
         /\ tloop' = [tloop EXCEPT ![t] = 0]
         /\ tconn' = [tconn EXCEPT ![t] = 0]
         /\ UNCHANGED <<initialized, pool, open, nextConn, made>>

\* "async with self._lock": asyncio.Lock.acquire takes a free lock with no waiters
\* at once, and queues the caller otherwise.
InitEnter(t, g) ==
    IF lockHolder = 0 /\ lockWaiters = <<>>
    THEN /\ lockWaiters' = lockWaiters
         /\ InitBody(t, g)
    ELSE /\ lockWaiters' = Append(lockWaiters, t)
         /\ tpc' = [tpc EXCEPT ![t] = "init_lock"]
         /\ UNCHANGED <<initialized, lockHolder, pool, open, nextConn, tconn, tloop,
                        made>>

\* One iteration of the for loop is over with the queue now q.
InitLoopNext(t, q) ==
    IF tloop[t] + 1 < max_connections
    THEN /\ tloop' = [tloop EXCEPT ![t] = tloop[t] + 1]
         /\ tpc' = [tpc EXCEPT ![t] = "create"]
         /\ tconn' = [tconn EXCEPT ![t] = 0]
         /\ pool' = q
         /\ UNCHANGED <<initialized, lockHolder>>
    ELSE /\ initialized' = TRUE
         /\ lockHolder' = 0
         /\ tloop' = [tloop EXCEPT ![t] = 0]
         /\ AfterInit(t, tfromGet[t], q)

\* await self._pool.put(c) inside initialize()
InitPut(t, c) ==
    IF ~Full(pool)
    THEN InitLoopNext(t, Append(pool, c))
    ELSE /\ tpc' = [tpc EXCEPT ![t] = "init_put"]
         /\ tconn' = [tconn EXCEPT ![t] = c]
         /\ UNCHANGED <<initialized, lockHolder, pool, tloop>>

CallInitialize(t) ==
    /\ tpc[t] = "idle"
    /\ tfromGet' = [tfromGet EXCEPT ![t] = FALSE]
    /\ raised' = [raised EXCEPT ![t] = FALSE]
    /\ InitEnter(t, FALSE)
    /\ UNCHANGED closeCalls
    /\ UNCHANGED streamVars
    /\ Track(t)

InitLockAcquired(t) ==
    /\ tpc[t] = "init_lock"
    /\ lockHolder = 0
    /\ lockWaiters # <<>>
    /\ Head(lockWaiters) = t
    /\ lockWaiters' = Tail(lockWaiters)
    /\ InitBody(t, tfromGet[t])
    /\ UNCHANGED <<closeCalls, tfromGet, raised>>
    /\ UNCHANGED streamVars
    /\ Track(t)

\* await self._create_connection() returns a new connection
CreateReturns(t) ==
    /\ tpc[t] = "create"
    /\ nextConn' = nextConn + 1
    /\ open' = open \cup {nextConn}
    /\ made' = [made EXCEPT ![t] = made[t] + 1]
    /\ InitPut(t, nextConn)
    /\ UNCHANGED <<lockWaiters, closeCalls, tfromGet, raised>>
    /\ UNCHANGED streamVars
    /\ Track(t)

\* a put() of initialize() that found the queue full is woken
InitPutUnblocked(t) ==
    /\ tpc[t] = "init_put"
    /\ ~Full(pool)
    /\ InitLoopNext(t, Append(pool, tconn[t]))
    /\ UNCHANGED <<lockWaiters, open, nextConn, closeCalls, tfromGet, raised,
                   made>>
    /\ UNCHANGED streamVars
    /\ Track(t)

\* --------------------------------------------------------- get_connection
CallGetConnection(t) ==
    /\ tpc[t] = "idle"
    /\ tfromGet' = [tfromGet EXCEPT ![t] = ~initialized]
    /\ raised' = [raised EXCEPT ![t] = FALSE]
    /\ IF ~initialized
       THEN InitEnter(t, TRUE)
       ELSE /\ GetAttempt(t, pool)
            /\ UNCHANGED <<initialized, lockHolder, lockWaiters, open, nextConn,
                           tloop, made>>
    /\ UNCHANGED closeCalls
    /\ UNCHANGED streamVars
    /\ Track(t)

GetUnblocked(t) ==
    /\ tpc[t] = "get"
    /\ pool # <<>>
    /\ GetAttempt(t, pool)
    /\ UNCHANGED <<initialized, lockHolder, lockWaiters, open, nextConn, closeCalls,
                   tloop, tfromGet, raised, made>>
    /\ UNCHANGED streamVars
    /\ Track(t)

\* A put of the finally block that leaves the connection out when the work raised.
FinallyOnlyOnReturn(t, r) ==
    /\ raised' = [raised EXCEPT ![t] = r]
    /\ IF r
       THEN /\ tconn' = [tconn EXCEPT ![t] = 0]
            /\ tpc' = [tpc EXCEPT ![t] = "idle"]
            /\ pool' = pool
       ELSE IF ~Full(pool)
       THEN /\ pool' = Append(pool, tconn[t])
            /\ tconn' = [tconn EXCEPT ![t] = 0]
            /\ tpc' = [tpc EXCEPT ![t] = "idle"]
       ELSE /\ tpc' = [tpc EXCEPT ![t] = "put"]
            /\ UNCHANGED <<pool, tconn>>

\* finally: await self._pool.put(conn), whether the with-body returned or raised (r)
Finally(t, r) ==
    /\ raised' = [raised EXCEPT ![t] = r]
    /\ IF ~Full(pool)
       THEN /\ pool' = Append(pool, tconn[t])
            /\ tconn' = [tconn EXCEPT ![t] = 0]
            /\ tpc' = [tpc EXCEPT ![t] = "idle"]
       ELSE /\ tpc' = [tpc EXCEPT ![t] = "put"]
            /\ UNCHANGED <<pool, tconn>>

WorkReturns(t) ==
    /\ tpc[t] = "holding"
    /\ Finally(t, FALSE)
    /\ tfromGet' = [tfromGet EXCEPT ![t] = tpc'[t] # "idle" /\ @]
    /\ UNCHANGED <<initialized, lockHolder, lockWaiters, open, nextConn, closeCalls,
                   tloop, made>>
    /\ UNCHANGED streamVars
    /\ Track(t)

WorkRaises(t) ==
    /\ tpc[t] = "holding"
    /\ Finally(t, TRUE)
    /\ tfromGet' = [tfromGet EXCEPT ![t] = tpc'[t] # "idle" /\ @]
    /\ UNCHANGED <<initialized, lockHolder, lockWaiters, open, nextConn, closeCalls,
                   tloop, made>>
    /\ UNCHANGED streamVars
    /\ Track(t)

\* the finally block's put() that found the queue full is woken
PutUnblocked(t) ==
    /\ tpc[t] = "put"
    /\ ~Full(pool)
    /\ pool' = Append(pool, tconn[t])
    /\ tconn' = [tconn EXCEPT ![t] = 0]
    /\ tpc' = [tpc EXCEPT ![t] = "idle"]
    /\ tfromGet' = [tfromGet EXCEPT ![t] = FALSE]
    /\ UNCHANGED <<initialized, lockHolder, lockWaiters, open, nextConn, closeCalls,
                   tloop, raised, made>>
    /\ UNCHANGED streamVars
    /\ Track(t)

\* ------------------------------------------------------------------ close
\* "while not self._pool.empty()": take the next idle connection and close it, or
\* finish.
DrainLoop(t) ==
    IF pool # <<>>
    THEN /\ pool' = Tail(pool)
         /\ tconn' = [tconn EXCEPT ![t] = Head(pool)]
         /\ tpc' = [tpc EXCEPT ![t] = "close_conn"]
         /\ lockHolder' = t
         /\ UNCHANGED <<initialized, made>>
    ELSE /\ initialized' = FALSE
         /\ lockHolder' = 0
         /\ pool' = pool
         /\ tconn' = [tconn EXCEPT ![t] = 0]
         /\ tpc' = [tpc EXCEPT ![t] = "idle"]
         /\ made' = [u \in Tasks |-> 0]

\* The body of "async with self._lock" in close(), entered holding the lock.
CloseBody(t) ==
    IF ~initialized
    THEN /\ lockHolder' = 0
         /\ tpc' = [tpc EXCEPT ![t] = "idle"]
         /\ UNCHANGED <<initialized, pool, tconn, made>>
    ELSE DrainLoop(t)

CallClose(t) ==
    /\ tpc[t] = "idle"
    /\ closeCalls < MaxCloses
    /\ closeCalls' = closeCalls + 1
    /\ IF lockHolder = 0 /\ lockWaiters = <<>>
       THEN /\ lockWaiters' = lockWaiters
            /\ CloseBody(t)
       ELSE /\ lockWaiters' = Append(lockWaiters, t)
            /\ tpc' = [tpc EXCEPT ![t] = "close_lock"]
            /\ UNCHANGED <<initialized, lockHolder, pool, tconn, made>>
    /\ raised' = [raised EXCEPT ![t] = FALSE]
    /\ UNCHANGED <<open, nextConn, tloop, tfromGet>>
    /\ UNCHANGED streamVars
    /\ Track(t)

CloseLockAcquired(t) ==
    /\ tpc[t] = "close_lock"
    /\ lockHolder = 0
    /\ lockWaiters # <<>>
    /\ Head(lockWaiters) = t
    /\ lockWaiters' = Tail(lockWaiters)
    /\ CloseBody(t)
    /\ UNCHANGED <<open, nextConn, closeCalls, tloop, tfromGet, raised>>
    /\ UNCHANGED streamVars
    /\ Track(t)

\* await conn.close() returns
CloseConnReturns(t) ==
    /\ tpc[t] = "close_conn"
    /\ open' = open \ {tconn[t]}
    /\ DrainLoop(t)
    /\ UNCHANGED <<lockWaiters, nextConn, closeCalls, tloop, tfromGet, raised>>
    /\ UNCHANGED streamVars
    /\ Track(t)

PoolInit == PoolObject /\ NoTasks /\ NoStreams

PoolNext ==
    \E t \in Tasks :
        \/ CallInitialize(t)
        \/ InitLockAcquired(t)
        \/ CreateReturns(t)
        \/ InitPutUnblocked(t)
        \/ CallGetConnection(t)
        \/ GetUnblocked(t)
        \/ WorkReturns(t)
        \/ WorkRaises(t)
        \/ PutUnblocked(t)
        \/ CallClose(t)
        \/ CloseLockAcquired(t)
        \/ CloseConnReturns(t)

SpecPool == PoolInit /\ [][PoolNext]_vars

\* await self._create_connection() raises (aiosqlite.connect fails: disk full,
\* permissions): nothing in initialize() catches it, "async with self._lock"
\* releases the lock, and the exception reaches the caller of initialize() or
\* of get_connection()
CreateRaises(t) ==
    /\ tpc[t] = "create"
    /\ tpc' = [tpc EXCEPT ![t] = "idle"]
    /\ tloop' = [tloop EXCEPT ![t] = 0]
    /\ tfromGet' = [tfromGet EXCEPT ![t] = FALSE]
    /\ raised' = [raised EXCEPT ![t] = TRUE]
    /\ lockHolder' = 0
    /\ UNCHANGED <<initialized, lockWaiters, pool, open, nextConn, closeCalls,
                   tconn, made>>
    /\ UNCHANGED streamVars
    /\ Track(t)

\* The pool on storage that may reject a connection.
PoolFailNext == PoolNext \/ \E t \in Tasks : CreateRaises(t)

SpecPoolFail == PoolInit /\ [][PoolFailNext]_vars

\* The event loop runs every task that is ready: an awaited creation or close
\* ends, by return or by exception, and a task whose lock, get() or put() can
\* proceed is resumed.  Nothing obliges a task to make a new call.
Resume(t) ==
    \/ InitLockAcquired(t) \/ CreateReturns(t) \/ CreateRaises(t)
    \/ InitPutUnblocked(t) \/ GetUnblocked(t) \/ WorkReturns(t) \/ WorkRaises(t)
    \/ PutUnblocked(t) \/ CloseLockAcquired(t) \/ CloseConnReturns(t)

PoolFair == \A t \in Tasks : WF_vars(Resume(t))

SpecPoolFailFair == PoolInit /\ [][PoolFailNext]_vars /\ PoolFair


\* ======================================================= the pose streamer
Min(a, b) == IF a <= b THEN a ELSE b

\* the store after main() ran asyncio.run(db.init_db()): the pool is filled and
\* the connection init_db() used is back at the end of the queue
PoolStarted ==
    /\ initialized = TRUE
    /\ lockHolder = 0
    /\ lockWaiters = <<>>
    /\ pool = [i \in 1..max_connections |-> IF i = max_connections THEN 1 ELSE i + 1]
    /\ open = 1..max_connections
    /\ nextConn = max_connections + 1
    /\ closeCalls = 0

\* One PoseStreamer is constructed, with any configuration, for the first camera;
\* stream() is not yet entered
StreamInit ==
    /\ db \in BOOLEAN
    /\ IF db THEN PoolStarted ELSE PoolObject
    /\ NoTasks
    /\ shutdown_event = FALSE
    /\ clock = 0
    /\ records = <<>>
    /\ max_reconnect_backoff \in 1..MaxBackoff
    /\ \E u \in BOOLEAN : rtsp_url = [s \in Cameras |-> u /\ s = 1]
    /\ spc = [s \in Cameras |-> IF s = 1 THEN "start" ELSE "none"]
    /\ shutdown = [s \in Cameras |-> FALSE]
    /\ frame_number = [s \in Cameras |-> 0]
    /\ last_output_time = [s \in Cameras |-> 0]
    /\ wait_time = [s \in Cameras |-> 0]
    /\ ret = [s \in Cameras |-> "none"]
    /\ detections = [s \in Cameras |-> 0]
    /\ cap = [s \in Cameras |-> "open"]
    /\ sconn = [s \in Cameras |-> 0]
    /\ startTime = [s \in Cameras |-> 0]
    /\ emitTimes = [s \in Cameras |-> <<>>]
    /\ waits = [s \in Cameras |-> <<>>]
    /\ dropped = [s \in Cameras |-> 0]
    /\ process = [s \in Cameras |-> "running"]
    /\ ffmpeg_threads = [s \in Cameras |-> "running"]
    /\ mpc = <<"none">>
    /\ call = <<"none">>
    /\ result = <<>>
    /\ saved = <<>>

\* "self.shutdown or (self.shutdown_event and self.shutdown_event.is_set())"
Stopping(s) == shutdown[s] \/ shutdown_event

\* stream() is entered: last_output_time = time.time()
StreamStart(s) ==
    /\ spc[s] = "start"
    /\ last_output_time' = [last_output_time EXCEPT ![s] = clock]
    /\ startTime' = [startTime EXCEPT ![s] = clock]
    /\ spc' = [spc EXCEPT ![s] = "loop"]
    /\ UNCHANGED <<poolVars, taskVars, histVars, outerVars, sinkVars, shutdown_event, clock, cfgVars,
                   shutdown, frame_number, emitTimes, rcVars, storeVars, ret,
                   detections>>

\* A while condition that looks at the streamer's own flag only.
LoopCheckOwnFlagOnly(s) ==
    /\ spc[s] = "loop"
    /\ spc' = [spc EXCEPT ![s] = IF shutdown[s] THEN "cleanup" ELSE "read"]
    /\ UNCHANGED <<poolVars, taskVars, histVars, outerVars, sinkVars, shutdown_event,
                   clock, cfgVars, shutdown, gateVars, rcVars, storeVars, ret,
                   detections, startTime>>

\* the while condition of stream()
LoopCheck(s) ==
    /\ spc[s] = "loop"
    /\ spc' = [spc EXCEPT ![s] = IF Stopping(s) THEN "cleanup" ELSE "read"]
    /\ UNCHANGED <<poolVars, taskVars, histVars, outerVars, sinkVars, shutdown_event, clock, cfgVars,
                   shutdown, gateVars, rcVars, storeVars, ret, detections, startTime>>

\* A loop that counts every frame read, before the gate.
ReadOkCountsEveryRead(s) ==
    /\ spc[s] = "read"
    /\ cap[s] = "open"
    /\ ret' = [ret EXCEPT ![s] = "ok"]
    /\ frame_number' = [frame_number EXCEPT ![s] = frame_number[s] + 1]
    /\ IF (clock - last_output_time[s]) * FPS < TicksPerSecond
       THEN /\ spc' = [spc EXCEPT ![s] = "loop"]
            /\ UNCHANGED <<last_output_time, emitTimes>>
       ELSE /\ last_output_time' = [last_output_time EXCEPT ![s] = clock]
            /\ emitTimes' = [emitTimes EXCEPT ![s] = Append(emitTimes[s], clock)]
            /\ spc' = [spc EXCEPT ![s] = "infer"]
    /\ UNCHANGED <<poolVars, taskVars, histVars, outerVars, sinkVars, shutdown_event, clock, cfgVars,
                   shutdown, rcVars, storeVars, detections, startTime>>

\* A gate that measures from the last frame read instead of the last one emitted.
ReadOkSinceLastRead(s) ==
    /\ spc[s] = "read"
    /\ cap[s] = "open"
    /\ ret' = [ret EXCEPT ![s] = "ok"]
    /\ last_output_time' = [last_output_time EXCEPT ![s] = clock]
    /\ IF (clock - last_output_time[s]) * FPS < TicksPerSecond
       THEN /\ spc' = [spc EXCEPT ![s] = "loop"]
            /\ UNCHANGED <<frame_number, emitTimes>>
       ELSE /\ frame_number' = [frame_number EXCEPT ![s] = frame_number[s] + 1]
            /\ emitTimes' = [emitTimes EXCEPT ![s] = Append(emitTimes[s], clock)]
            /\ spc' = [spc EXCEPT ![s] = "infer"]
    /\ UNCHANGED <<poolVars, taskVars, histVars, outerVars, sinkVars, shutdown_event, clock, cfgVars,
                   shutdown, rcVars, storeVars, detections, startTime>>

\* cap.read() returns a frame: the frame-rate gate, "now - last_output_time <
\* interval" with interval = 1.0 / fps, then frame_number += 1
ReadOk(s) ==
    /\ spc[s] = "read"
    /\ cap[s] = "open"
    /\ ret' = [ret EXCEPT ![s] = "ok"]
    /\ IF (clock - last_output_time[s]) * FPS < TicksPerSecond
       THEN /\ spc' = [spc EXCEPT ![s] = "loop"]
            /\ UNCHANGED gateVars
       ELSE /\ last_output_time' = [last_output_time EXCEPT ![s] = clock]
            /\ frame_number' = [frame_number EXCEPT ![s] = frame_number[s] + 1]
            /\ emitTimes' = [emitTimes EXCEPT ![s] = Append(emitTimes[s], clock)]
            /\ spc' = [spc EXCEPT ![s] = "infer"]
    /\ UNCHANGED <<poolVars, taskVars, histVars, outerVars, sinkVars, shutdown_event, clock, cfgVars,
                   shutdown, rcVars, storeVars, detections, startTime>>

\* An attempt that sleeps and reopens without releasing the handle it has.
RcLoopNoRelease(s, w, c, h) ==
    /\ wait_time' = [wait_time EXCEPT ![s] = w]
    /\ cap' = [cap EXCEPT ![s] = c]
    /\ IF Stopping(s)
       THEN /\ spc' = [spc EXCEPT ![s] = "cleanup"]
            /\ waits' = [waits EXCEPT ![s] = h]
       ELSE /\ spc' = [spc EXCEPT ![s] = "rc_sleep"]
            /\ waits' = [waits EXCEPT ![s] = IF Len(h) < MaxWaits THEN Append(h, w) ELSE h]

\* The while loop of _attempt_reconnect() at its head, with wait_time w, the
\* handle in state c and the waits h made so far: it returns False (and stream()
\* breaks) on shutdown, and otherwise releases the handle and sleeps w.
RcLoop(s, w, c, h) ==
    /\ wait_time' = [wait_time EXCEPT ![s] = w]
    /\ IF Stopping(s)
       THEN /\ spc' = [spc EXCEPT ![s] = "cleanup"]
            /\ cap' = [cap EXCEPT ![s] = c]
            /\ waits' = [waits EXCEPT ![s] = h]
       ELSE /\ spc' = [spc EXCEPT ![s] = "rc_sleep"]
            /\ cap' = [cap EXCEPT ![s] = "released"]
            /\ waits' = [waits EXCEPT ![s] = IF Len(h) < MaxWaits THEN Append(h, w) ELSE h]

\* A failed read whose episode starts with the wait the last episode reached.
ReadFailsKeepsWait(s) ==
    /\ spc[s] = "read"
    /\ ret' = [ret EXCEPT ![s] = "fail"]
    /\ IF ~rtsp_url[s]
       THEN /\ spc' = [spc EXCEPT ![s] = "cleanup"]
            /\ UNCHANGED rcVars
       ELSE RcLoop(s, IF wait_time[s] = 0 THEN TicksPerSecond ELSE wait_time[s],
                   cap[s], <<>>)
    /\ UNCHANGED <<poolVars, taskVars, histVars, outerVars, sinkVars, shutdown_event,
                   clock, cfgVars, shutdown, gateVars, storeVars, detections,
                   startTime>>

\* A failed read that tries to reconnect whether or not there is an address.
ReadFailsAlwaysRetry(s) ==
    /\ spc[s] = "read"
    /\ ret' = [ret EXCEPT ![s] = "fail"]
    /\ RcLoop(s, TicksPerSecond, cap[s], <<>>)
    /\ UNCHANGED <<poolVars, taskVars, histVars, outerVars, sinkVars, shutdown_event, clock, cfgVars,
                   shutdown, gateVars, storeVars, detections, startTime>>

\* cap.read() returns no frame: _attempt_reconnect() is entered, which returns
\* False at once without an address and starts with wait_time = 1.0 otherwise
ReadFails(s) ==
    /\ spc[s] = "read"
    /\ ret' = [ret EXCEPT ![s] = "fail"]
    /\ IF ~rtsp_url[s]
       THEN /\ spc' = [spc EXCEPT ![s] = "cleanup"]
            /\ UNCHANGED rcVars
       ELSE RcLoop(s, TicksPerSecond, cap[s], <<>>)
    /\ UNCHANGED <<poolVars, taskVars, histVars, outerVars, sinkVars, shutdown_event, clock, cfgVars,
                   shutdown, gateVars, storeVars, detections, startTime>>

\* time.sleep(wait_time) returns; cv2.VideoCapture(self.rtsp_url) is called
SleepReturns(s) ==
    /\ spc[s] = "rc_sleep"
    /\ spc' = [spc EXCEPT ![s] = "rc_open"]
    /\ UNCHANGED <<poolVars, taskVars, histVars, outerVars, sinkVars, shutdown_event, clock, cfgVars,
                   shutdown, gateVars, rcVars, storeVars, ret, detections, startTime>>

\* A reconnect whose success goes on to the next read without the loop test.
ReopenOkReadsOn(s) ==
    /\ spc[s] = "rc_open"
    /\ cap' = [cap EXCEPT ![s] = "open"]
    /\ spc' = [spc EXCEPT ![s] = "read"]
    /\ UNCHANGED <<poolVars, taskVars, histVars, outerVars, sinkVars, shutdown_event,
                   clock, cfgVars, shutdown, gateVars, wait_time, waits, storeVars,
                   ret, detections, startTime>>

\* A reconnect that starts the frame count afresh with the new handle.
ReopenOkResetsCount(s) ==
    /\ spc[s] = "rc_open"
    /\ cap' = [cap EXCEPT ![s] = "open"]
    /\ spc' = [spc EXCEPT ![s] = "loop"]
    /\ frame_number' = [frame_number EXCEPT ![s] = 0]
    /\ UNCHANGED <<poolVars, taskVars, histVars, outerVars, sinkVars, shutdown_event,
                   clock, cfgVars, shutdown, last_output_time, emitTimes, wait_time,
                   waits, storeVars, ret, detections, startTime>>

\* the new handle is opened: return True, and stream() continues
ReopenOk(s) ==
    /\ spc[s] = "rc_open"
    /\ cap' = [cap EXCEPT ![s] = "open"]
    /\ spc' = [spc EXCEPT ![s] = "loop"]
    /\ UNCHANGED <<poolVars, taskVars, histVars, outerVars, sinkVars, shutdown_event, clock, cfgVars,
                   shutdown, gateVars, wait_time, waits, storeVars, ret, detections,
                   startTime>>

\* A reconnect that gives up once the wait has reached the ceiling.
ReopenFailsGivesUp(s) ==
    /\ spc[s] = "rc_open"
    /\ IF wait_time[s] >= max_reconnect_backoff
       THEN /\ spc' = [spc EXCEPT ![s] = "cleanup"]
            /\ cap' = [cap EXCEPT ![s] = "unopened"]
            /\ UNCHANGED <<wait_time, waits>>
       ELSE RcLoop(s, Min(wait_time[s] * 2, max_reconnect_backoff), "unopened", waits[s])
    /\ UNCHANGED <<poolVars, taskVars, histVars, outerVars, sinkVars, shutdown_event, clock, cfgVars,
                   shutdown, gateVars, storeVars, ret, detections, startTime>>

\* the new handle is not opened: wait_time = min(wait_time * 2, ceiling), and
\* the while loop goes round
ReopenFails(s) ==
    /\ spc[s] = "rc_open"
    /\ RcLoop(s, Min(wait_time[s] * 2, max_reconnect_backoff), "unopened", waits[s])
    /\ UNCHANGED <<poolVars, taskVars, histVars, outerVars, sinkVars, shutdown_event, clock, cfgVars,
                   shutdown, gateVars, storeVars, ret, detections, startTime>>

\* process_frame() returns n person detections
InferReturns(s) ==
    /\ spc[s] = "infer"
    /\ \E n \in 0..MaxDet : detections' = [detections EXCEPT ![s] = n]
    /\ spc' = [spc EXCEPT ![s] = "write"]
    /\ UNCHANGED <<poolVars, taskVars, histVars, outerVars, sinkVars, shutdown_event, clock, cfgVars,
                   shutdown, gateVars, rcVars, storeVars, ret, startTime>>

\* An inference exception that leaves stream() past the cleanup.
InferRaisesSkipsFinally(s) ==
    /\ spc[s] = "infer"
    /\ spc' = [spc EXCEPT ![s] = "stopped"]
    /\ UNCHANGED <<poolVars, taskVars, histVars, outerVars, sinkVars, shutdown_event,
                   clock, cfgVars, shutdown, gateVars, rcVars, storeVars, ret,
                   detections, startTime>>

\* process_frame() raises: the exception leaves stream() through finally
InferRaises(s) ==
    /\ spc[s] = "infer"
    /\ spc' = [spc EXCEPT ![s] = "cleanup"]
    /\ UNCHANGED <<poolVars, taskVars, histVars, outerVars, sinkVars, shutdown_event, clock, cfgVars,
                   shutdown, gateVars, rcVars, storeVars, ret, detections, startTime>>

\* A write that persists every processed frame, detections or not.
WriteOkSaveAlways(s) ==
    /\ spc[s] = "write"
    /\ spc' = [spc EXCEPT ![s] = IF db THEN "save" ELSE "loop"]
    /\ UNCHANGED <<poolVars, taskVars, histVars, outerVars, sinkVars, shutdown_event, clock, cfgVars,
                   shutdown, gateVars, rcVars, storeVars, ret, detections, startTime>>

\* self.process.stdin.write() returns; "if len(detections) > 0 and self.db"
WriteOk(s) ==
    /\ spc[s] = "write"
    /\ spc' = [spc EXCEPT ![s] = IF detections[s] > 0 /\ db THEN "save" ELSE "loop"]
    /\ UNCHANGED <<poolVars, taskVars, histVars, outerVars, sinkVars, shutdown_event, clock, cfgVars,
                   shutdown, gateVars, rcVars, storeVars, ret, detections, startTime>>

\* A failed write that also sets the event all workers share.
WriteRaisesSetsEvent(s) ==
    /\ spc[s] = "write"
    /\ spc' = [spc EXCEPT ![s] = "cleanup"]
    /\ shutdown_event' = TRUE
    /\ UNCHANGED <<poolVars, taskVars, histVars, outerVars, sinkVars, clock, cfgVars,
                   shutdown, gateVars, rcVars, storeVars, ret, detections, startTime>>

\* self.process.stdin.write() raises
WriteRaises(s) ==
    /\ spc[s] = "write"
    /\ spc' = [spc EXCEPT ![s] = "cleanup"]
    /\ UNCHANGED <<poolVars, taskVars, histVars, outerVars, sinkVars, shutdown_event, clock, cfgVars,
                   shutdown, gateVars, rcVars, storeVars, ret, detections, startTime>>

\* An acquisition that takes a second connection along when there is one.
SaveAcquireTakesTwo(s) ==
    /\ spc[s] = "save"
    /\ initialized
    /\ pool # <<>>
    /\ sconn' = [sconn EXCEPT ![s] = Head(pool)]
    /\ pool' = IF Len(pool) > 1 THEN Tail(Tail(pool)) ELSE Tail(pool)
    /\ spc' = [spc EXCEPT ![s] = "saving"]
    /\ UNCHANGED <<initialized, lockHolder, lockWaiters, open, nextConn, closeCalls,
                   taskVars, histVars, outerVars, sinkVars, shutdown_event, clock,
                   cfgVars, shutdown, gateVars, rcVars, records, dropped, ret,
                   detections, startTime>>

\* save_detection(): "async with self._pool.get_connection() as db" on the
\* initialized pool
SaveAcquire(s) ==
    /\ spc[s] = "save"
    /\ initialized
    /\ pool # <<>>
    /\ sconn' = [sconn EXCEPT ![s] = Head(pool)]
    /\ pool' = Tail(pool)
    /\ spc' = [spc EXCEPT ![s] = "saving"]
    /\ UNCHANGED <<initialized, lockHolder, lockWaiters, open, nextConn, closeCalls,
                   taskVars, histVars, outerVars, sinkVars, shutdown_event, clock, cfgVars, shutdown,
                   gateVars, rcVars, records, dropped, ret, detections, startTime>>

\* An insert that replaces the stored row of the same frame_number, if any.
SaveCommitReplaces(s) ==
    /\ spc[s] = "saving"
    /\ LET same == {i \in 1..Len(records) : records[i].frame_number = frame_number[s]}
           row(i) == [id |-> i, camera_name |-> s, frame_number |-> frame_number[s],
                      detections |-> detections[s]]
       IN  records' = IF same = {} THEN Append(records, row(Len(records) + 1))
                      ELSE LET i == CHOOSE k \in same : TRUE
                           IN  [records EXCEPT ![i] = row(i)]
    /\ pool' = Append(pool, sconn[s])
    /\ sconn' = [sconn EXCEPT ![s] = 0]
    /\ spc' = [spc EXCEPT ![s] = "loop"]
    /\ UNCHANGED <<initialized, lockHolder, lockWaiters, open, nextConn, closeCalls,
                   taskVars, histVars, outerVars, sinkVars, shutdown_event, clock,
                   cfgVars, shutdown, gateVars, rcVars, dropped, ret, detections,
                   startTime>>

\* INSERT and commit return: the row gets the next id, the connection goes back
SaveCommit(s) ==
    /\ spc[s] = "saving"
    /\ records' = Append(records, [id |-> Len(records) + 1, camera_name |-> s,
                                   frame_number |-> frame_number[s],
                                   detections |-> detections[s]])
    /\ pool' = Append(pool, sconn[s])
    /\ sconn' = [sconn EXCEPT ![s] = 0]
    /\ spc' = [spc EXCEPT ![s] = "loop"]
    /\ UNCHANGED <<initialized, lockHolder, lockWaiters, open, nextConn, closeCalls,
                   taskVars, histVars, outerVars, sinkVars, shutdown_event, clock, cfgVars, shutdown,
                   gateVars, rcVars, dropped, ret, detections, startTime>>

\* A failed store write that is not caught and leaves stream().
SaveFailsPropagates(s) ==
    /\ spc[s] \in {"save", "saving"}
    /\ dropped' = [dropped EXCEPT ![s] = dropped[s] + 1]
    /\ pool' = IF sconn[s] # 0 THEN Append(pool, sconn[s]) ELSE pool
    /\ sconn' = [sconn EXCEPT ![s] = 0]
    /\ spc' = [spc EXCEPT ![s] = "cleanup"]
    /\ UNCHANGED <<initialized, lockHolder, lockWaiters, open, nextConn, closeCalls,
                   taskVars, histVars, outerVars, sinkVars, shutdown_event, clock, cfgVars, shutdown,
                   gateVars, rcVars, records, ret, detections, startTime>>

\* _save_detection(): the store write raises, before or after the connection was
\* taken; get_connection()'s finally returns a held connection and "except
\* Exception" logs the error
SaveFails(s) ==
    /\ spc[s] \in {"save", "saving"}
    /\ dropped' = [dropped EXCEPT ![s] = dropped[s] + 1]
    /\ pool' = IF sconn[s] # 0 THEN Append(pool, sconn[s]) ELSE pool
    /\ sconn' = [sconn EXCEPT ![s] = 0]
    /\ spc' = [spc EXCEPT ![s] = "loop"]
    /\ UNCHANGED <<initialized, lockHolder, lockWaiters, open, nextConn, closeCalls,
                   taskVars, histVars, outerVars, sinkVars, shutdown_event, clock, cfgVars, shutdown,
                   gateVars, rcVars, records, ret, detections, startTime>>

\* the finally block of stream(), every call of which returns: cap.release(),
\* process.stdin.close(), process.wait(), and t.join(timeout=1) for each reader
Cleanup(s) ==
    /\ spc[s] = "cleanup"
    /\ cap' = [cap EXCEPT ![s] = "released"]
    /\ process' = [process EXCEPT ![s] = "waited"]
    /\ ffmpeg_threads' = [ffmpeg_threads EXCEPT ![s] = "joined"]
    /\ spc' = [spc EXCEPT ![s] = "stopped"]
    /\ UNCHANGED <<poolVars, taskVars, histVars, outerVars, shutdown_event, clock,
                   cfgVars, shutdown, gateVars, wait_time, waits, storeVars, ret,
                   detections, startTime>>

\* main.handle_sigint: shutdown_event.set()
Sigint ==
    /\ ~shutdown_event
    /\ shutdown_event' = TRUE
    /\ UNCHANGED <<poolVars, taskVars, histVars, outerVars, sinkVars, clock, cfgVars, spc, shutdown,
                   gateVars, rcVars, storeVars, ret, detections, startTime>>

\* PoseStreamer.handle_sigint: self.shutdown = True
LocalSigint(s) ==
    /\ ~shutdown[s]
    /\ spc[s] \notin {"none", "stopped"}
    /\ shutdown' = [shutdown EXCEPT ![s] = TRUE]
    /\ UNCHANGED <<poolVars, taskVars, histVars, outerVars, sinkVars, shutdown_event, clock, cfgVars, spc,
                   gateVars, rcVars, storeVars, ret, detections, startTime>>

\* time passes
Tick ==
    /\ clock < MaxTime
    /\ clock' = clock + 1
    /\ UNCHANGED <<poolVars, taskVars, histVars, outerVars, sinkVars, shutdown_event, cfgVars, spc,
                   shutdown, gateVars, rcVars, storeVars, ret, detections, startTime>>

\* a step of the worker thread of camera s
WorkerStep(s) ==
    \/ StreamStart(s)
    \/ LoopCheck(s)
    \/ ReadOk(s)
    \/ ReadFails(s)
    \/ SleepReturns(s)
    \/ ReopenOk(s)
    \/ ReopenFails(s)
    \/ InferReturns(s)
    \/ InferRaises(s)
    \/ WriteOk(s)
    \/ WriteRaises(s)
    \/ SaveAcquire(s)
    \/ SaveCommit(s)
    \/ SaveFails(s)
    \/ Cleanup(s)

StreamStep(s) ==
    \/ WorkerStep(s)
    \/ LocalSigint(s)

StreamNext ==
    \/ \E s \in Cameras : StreamStep(s)
    \/ Sigint
    \/ Tick

SpecStream == StreamInit /\ [][StreamNext]_vars

\* every blocking call of a worker returns and its thread gets to run
StreamFair == \A s \in Cameras : WF_vars(WorkerStep(s))

SpecStreamFair == StreamInit /\ [][StreamNext]_vars /\ StreamFair


\* ========================================================== the supervisor
\* main() has started one worker thread per camera and is about to join them:
\* the store is started when SAVE_TO_DB is set, every worker got the shared
\* event, the same FPS and RECONNECT_BACKOFF_MAX and its camera's address (which
\* may be empty), and is about to enter stream().
MainInit ==
    /\ db \in BOOLEAN
    /\ IF db THEN PoolStarted ELSE PoolObject
    /\ NoTasks
    /\ shutdown_event = FALSE
    /\ clock = MaxTime - MainTicks
    /\ records = <<>>
    /\ max_reconnect_backoff = MaxBackoff
    /\ rtsp_url \in [Cameras -> BOOLEAN]
    /\ spc = [s \in Cameras |-> "start"]
    /\ shutdown = [s \in Cameras |-> FALSE]
    /\ frame_number = [s \in Cameras |-> 0]
    /\ last_output_time = [s \in Cameras |-> 0]
    /\ wait_time = [s \in Cameras |-> 0]
    /\ ret = [s \in Cameras |-> "none"]
    /\ detections = [s \in Cameras |-> 0]
    /\ cap = [s \in Cameras |-> "open"]
    /\ sconn = [s \in Cameras |-> 0]
    /\ startTime = [s \in Cameras |-> 0]
    /\ emitTimes = [s \in Cameras |-> <<>>]
    /\ waits = [s \in Cameras |-> <<>>]
    /\ dropped = [s \in Cameras |-> 0]
    /\ process = [s \in Cameras |-> "running"]
    /\ ffmpeg_threads = [s \in Cameras |-> "running"]
    /\ mpc = <<"join", 1>>
    /\ call = <<"none">>
    /\ result = <<>>
    /\ saved = <<>>

\* A join with a timeout: it returns whether or not the worker has ended.
JoinReturnsOnTimeout ==
    /\ mpc[1] = "join"
    /\ mpc' = IF mpc[2] < NCams THEN <<"join", mpc[2] + 1>>
              ELSE IF db THEN <<"close">> ELSE <<"done">>
    /\ UNCHANGED <<poolVars, taskVars, histVars, shutdown_event, clock, cfgVars, spc,
                   shutdown, gateVars, rcVars, storeVars, ret, detections, startTime,
                   sinkVars, call, result, saved>>

\* "for t in threads: t.join()": the join of the next worker returns once its
\* run_stream() has ended; after the last one, "if db:"
JoinReturns ==
    /\ mpc[1] = "join"
    /\ spc[mpc[2]] = "stopped"
    /\ mpc' = IF mpc[2] < NCams THEN <<"join", mpc[2] + 1>>
              ELSE IF db THEN <<"close">> ELSE <<"done">>
    /\ UNCHANGED <<poolVars, taskVars, histVars, shutdown_event, clock, cfgVars, spc,
                   shutdown, gateVars, rcVars, storeVars, ret, detections, startTime,
                   sinkVars, call, result, saved>>

\* "asyncio.run(db.close())": DatabaseConnectionPool.close() runs alone in its
\* event loop, takes the free lock, closes every idle connection and marks the
\* pool uninitialized
MainClose ==
    /\ mpc = <<"close">>
    /\ lockHolder = 0 /\ lockWaiters = <<>>
    /\ IF initialized
       THEN /\ open' = open \ SeqToSet(pool)
            /\ pool' = <<>>
            /\ initialized' = FALSE
       ELSE UNCHANGED <<open, pool, initialized>>
    /\ closeCalls' = closeCalls + 1
    /\ mpc' = <<"done">>
    /\ UNCHANGED <<lockHolder, lockWaiters, nextConn, taskVars, histVars,
                   shutdown_event, clock, cfgVars, spc, shutdown, gateVars, rcVars,
                   storeVars, ret, detections, startTime, sinkVars, call, result, saved>>

MainNext ==
    \/ \E s \in Cameras : WorkerStep(s)
    \/ Sigint
    \/ Tick
    \/ JoinReturns
    \/ MainClose

SpecMain == MainInit /\ [][MainNext]_vars

\* main() from its start: the configuration is read, the store object exists
\* with an empty pool when SAVE_TO_DB is set, no worker thread exists yet
StartupInit ==
    /\ db \in BOOLEAN
    /\ PoolObject
    /\ NoTasks
    /\ shutdown_event = FALSE
    /\ clock = MaxTime - MainTicks
    /\ records = <<>>
    /\ max_reconnect_backoff = MaxBackoff
    /\ rtsp_url \in [Cameras -> BOOLEAN]
    /\ spc = [s \in Cameras |-> "none"]
    /\ shutdown = [s \in Cameras |-> FALSE]
    /\ frame_number = [s \in Cameras |-> 0]
    /\ last_output_time = [s \in Cameras |-> 0]
    /\ wait_time = [s \in Cameras |-> 0]
    /\ ret = [s \in Cameras |-> "none"]
    /\ detections = [s \in Cameras |-> 0]
    /\ cap = [s \in Cameras |-> "open"]
    /\ sconn = [s \in Cameras |-> 0]
    /\ startTime = [s \in Cameras |-> 0]
    /\ emitTimes = [s \in Cameras |-> <<>>]
    /\ waits = [s \in Cameras |-> <<>>]
    /\ dropped = [s \in Cameras |-> 0]
    /\ process = [s \in Cameras |-> "running"]
    /\ ffmpeg_threads = [s \in Cameras |-> "running"]
    /\ mpc = <<"init_db">>
    /\ call = <<"none">>
    /\ result = <<>>
    /\ saved = <<>>

\* what the startup steps of main() leave alone
StartupFrame ==
    UNCHANGED <<taskVars, histVars, shutdown_event, clock, cfgVars, shutdown,
                gateVars, rcVars, storeVars, ret, detections, startTime, sinkVars,
                call, result, saved>>

\* "if SAVE_TO_DB: ... asyncio.run(db.init_db())" returns (or is skipped): the
\* pool is filled, and the connection init_db() used is back in the queue
InitDbReturns ==
    /\ mpc = <<"init_db">>
    /\ IF db
       THEN /\ initialized' = TRUE
            /\ pool' = [i \in 1..max_connections |->
                           IF i = max_connections THEN 1 ELSE i + 1]
            /\ open' = 1..max_connections
            /\ nextConn' = max_connections + 1
       ELSE UNCHANGED <<initialized, pool, open, nextConn>>
    /\ mpc' = <<"threads">>
    /\ UNCHANGED <<lockHolder, lockWaiters, closeCalls, spc>>
    /\ StartupFrame

\* A main() that logs the failure of init_db() and goes on.
InitDbRaisesLogged ==
    /\ mpc = <<"init_db">>
    /\ db
    /\ \E k \in 0..(max_connections - 1) :
          /\ pool' = [i \in 1..k |-> i]
          /\ open' = 1..k
          /\ nextConn' = k + 1
    /\ mpc' = <<"threads">>
    /\ UNCHANGED <<initialized, lockHolder, lockWaiters, closeCalls, spc>>
    /\ StartupFrame

\* asyncio.run(db.init_db()) raises because initialize() could create only k of
\* its connections: nothing in main() catches it, main() ends there
InitDbRaises ==
    /\ mpc = <<"init_db">>
    /\ db
    /\ \E k \in 0..(max_connections - 1) :
          /\ pool' = [i \in 1..k |-> i]
          /\ open' = 1..k
          /\ nextConn' = k + 1
    /\ mpc' = <<"aborted">>
    /\ UNCHANGED <<initialized, lockHolder, lockWaiters, closeCalls, spc>>
    /\ StartupFrame

\* "for camera_name, rtsp_url in camera_configs: ... t.start()"
StartThreads ==
    /\ mpc = <<"threads">>
    /\ spc' = [s \in Cameras |-> "start"]
    /\ mpc' = <<"join", 1>>
    /\ UNCHANGED poolVars
    /\ StartupFrame

StartupNext ==
    \/ InitDbReturns
    \/ InitDbRaises
    \/ StartThreads
    \/ (mpc[1] \in {"join", "close", "done"} /\ MainNext)

SpecStartup == StartupInit /\ [][StartupNext]_vars

\* ------------------------------------------------- run_stream, from its start
\* main() has started a thread for every camera: each is in run_stream(), in
\* cv2.VideoCapture(rtsp_url), with no sink and no PoseStreamer yet
WorkersInit ==
    /\ db \in BOOLEAN
    /\ IF db THEN PoolStarted ELSE PoolObject
    /\ NoTasks
    /\ shutdown_event = FALSE
    /\ clock = MaxTime - MainTicks
    /\ records = <<>>
    /\ max_reconnect_backoff = MaxBackoff
    /\ rtsp_url \in [Cameras -> BOOLEAN]
    /\ spc = [s \in Cameras |-> "opening"]
    /\ shutdown = [s \in Cameras |-> FALSE]
    /\ frame_number = [s \in Cameras |-> 0]
    /\ last_output_time = [s \in Cameras |-> 0]
    /\ wait_time = [s \in Cameras |-> 0]
    /\ ret = [s \in Cameras |-> "none"]
    /\ detections = [s \in Cameras |-> 0]
    /\ cap = [s \in Cameras |-> "none"]
    /\ sconn = [s \in Cameras |-> 0]
    /\ startTime = [s \in Cameras |-> 0]
    /\ emitTimes = [s \in Cameras |-> <<>>]
    /\ waits = [s \in Cameras |-> <<>>]
    /\ dropped = [s \in Cameras |-> 0]
    /\ process = [s \in Cameras |-> "none"]
    /\ ffmpeg_threads = [s \in Cameras |-> "none"]
    /\ mpc = <<"join", 1>>
    /\ call = <<"none">>
    /\ result = <<>>
    /\ saved = <<>>

\* what the first steps of run_stream() leave alone
RunStreamFrame ==
    UNCHANGED <<poolVars, taskVars, histVars, outerVars, shutdown_event, clock,
                cfgVars, shutdown, gateVars, wait_time, waits, storeVars, ret,
                detections, startTime>>

\* "if not cap.isOpened()" is false: the sink is started with its two reader
\* threads, the PoseStreamer is constructed and streamer.stream() is called
RunStreamOpens(s) ==
    /\ spc[s] = "opening"
    /\ cap' = [cap EXCEPT ![s] = "open"]
    /\ process' = [process EXCEPT ![s] = "running"]
    /\ ffmpeg_threads' = [ffmpeg_threads EXCEPT ![s] = "running"]
    /\ spc' = [spc EXCEPT ![s] = "start"]
    /\ RunStreamFrame

\* A run_stream() that goes on to the sink and the streamer with the handle
\* that was not opened.
RunStreamOpenFailsGoesOn(s) ==
    /\ spc[s] = "opening"
    /\ cap' = [cap EXCEPT ![s] = "unopened"]
    /\ process' = [process EXCEPT ![s] = "running"]
    /\ ffmpeg_threads' = [ffmpeg_threads EXCEPT ![s] = "running"]
    /\ spc' = [spc EXCEPT ![s] = "start"]
    /\ RunStreamFrame

\* "if not cap.isOpened(): logger.error(...); return": the thread ends
RunStreamOpenFails(s) ==
    /\ spc[s] = "opening"
    /\ cap' = [cap EXCEPT ![s] = "unopened"]
    /\ spc' = [spc EXCEPT ![s] = "stopped"]
    /\ UNCHANGED sinkVars
    /\ RunStreamFrame

WorkersNext ==
    \/ \E s \in Cameras : RunStreamOpens(s)
    \/ \E s \in Cameras : RunStreamOpenFails(s)
    \/ MainNext

SpecWorkers == WorkersInit /\ [][WorkersNext]_vars

\* ================================================ the detection store API
\* Clients call PoseDatabase on the started store, one call at a time.  A
\* timestamp is the text that the writers of this repository produce for an
\* instant (in ticks): a sequence of character codes.  A row written here has
\* every column of the detections table but created_at; a row written by a
\* streamer above carries only the columns the streamer claims read.

Abs(x) == IF x < 0 THEN 0 - x ELSE x

Instants == 0..MaxStamp

\* datetime.now(timezone.utc).isoformat().replace('+00:00', 'Z'): the seconds
\* (fixed width), the fraction only when it is not zero, then 'Z'
IsoFormat(t) ==
    <<48 + (t \div TicksPerSecond)>>
    \o (IF t % TicksPerSecond = 0 THEN <<>>
        ELSE <<46, 48 + ((t % TicksPerSecond) * 10) \div TicksPerSecond>>)
    \o <<90>>

\* datetime.fromisoformat(timestamp.replace('Z', '+00:00')) and julianday(): the
\* instant a well-formed text denotes
ParseIso(x) ==
    (x[1] - 48) * TicksPerSecond
    + (IF Len(x) >= 3 /\ x[2] = 46 THEN ((x[3] - 48) * TicksPerSecond + 9) \div 10
       ELSE 0)

\* comparison of TEXT values in SQLite (BINARY collation): byte by byte, a
\* proper prefix first
RECURSIVE TextLeq(_, _)
TextLeq(x, y) ==
    IF x = <<>> THEN TRUE
    ELSE IF y = <<>> THEN FALSE
    ELSE IF Head(x) # Head(y) THEN Head(x) < Head(y)
    ELSE TextLeq(Tail(x), Tail(y))

\* json.dumps of a Python value: lists and tuples both become arrays
RECURSIVE JsonDumps(_)
JsonDumps(v) ==
    IF v.py \in {"list", "tuple"}
    THEN [js |-> "array", items |-> [i \in 1..Len(v.items) |-> JsonDumps(v.items[i])]]
    ELSE IF v.py = "dict"
    THEN [js |-> "object", items |-> [i \in 1..Len(v.items) |-> JsonDumps(v.items[i])]]
    ELSE [js |-> "number", items |-> v.items]

\* json.loads: every array becomes a list
RECURSIVE JsonLoads(_)
JsonLoads(j) ==
    IF j.js = "array"
    THEN [py |-> "list", items |-> [i \in 1..Len(j.items) |-> JsonLoads(j.items[i])]]
    ELSE IF j.js = "object"
    THEN [py |-> "dict", items |-> [i \in 1..Len(j.items) |-> JsonLoads(j.items[i])]]
    ELSE [py |-> "float", items |-> j.items]

\* Python values; the items of a dict are its values in key order
PyFloat(x) == [py |-> "float", items |-> x]
PyList(q) == [py |-> "list", items |-> q]
PyTuple(q) == [py |-> "tuple", items |-> q]
PyDict(q) == [py |-> "dict", items |-> q]

\* what clients pass as frame_number, video_timestamp and detections: a list of
\* one detection {"bbox": ...} whose bbox is a list, or a tuple as
\* Detection.model_dump() produces it, or a list of two detections
Payloads ==
    { <<1, 0, PyList(<<PyDict(<<PyList(<<PyFloat(1), PyFloat(2)>>)>>)>>)>>,
      <<2, 1, PyList(<<PyDict(<<PyTuple(<<PyFloat(1), PyFloat(2)>>)>>)>>)>>,
      <<3, 1, PyList(<<PyDict(<<PyList(<<PyFloat(1), PyFloat(2)>>)>>),
                       PyDict(<<PyList(<<PyFloat(3), PyFloat(4)>>)>>)>>)>> }

\* the timestamps clients pass
Stamps == {IsoFormat(t) : t \in Instants}

\* a text that is no timestamp ("x"), and the texts a caller may pass at all
Malformed == <<120>>
Texts == Stamps \cup {Malformed}

\* datetime.fromisoformat(x.replace('Z', '+00:00')) returns: the seconds, an
\* optional fraction, 'Z'; on any other text it raises ValueError
WellFormed(x) ==
    \/ Len(x) = 2 /\ x[1] \in 48..57 /\ x[2] = 90
    \/ Len(x) = 4 /\ x[1] \in 48..57 /\ x[2] = 46 /\ x[3] \in 48..57 /\ x[4] = 90

\* the dictionary the queries build from a row
RowDict(r) ==
    [id |-> r.id, camera_name |-> r.camera_name, timestamp |-> r.timestamp,
     frame_number |-> r.frame_number, video_timestamp |-> r.video_timestamp,
     detection_data |-> JsonLoads(r.detection_data)]

\* "async with self._pool.get_connection() as db" around one call that runs
\* alone, once the client has taken the result of its last call: the connection
\* at the head of the queue is taken and put back at its end
UseConnection ==
    /\ call = <<"none">>
    /\ initialized
    /\ pool # <<>>
    /\ pool' = Append(Tail(pool), Head(pool))
    /\ UNCHANGED <<initialized, lockHolder, lockWaiters, open, nextConn, closeCalls>>

\* the variables no call of the store API touches
ApiFrame ==
    UNCHANGED <<taskVars, histVars, shutdown_event, clock, cfgVars, spc, shutdown,
                gateVars, rcVars, sconn, dropped, ret, detections, startTime,
                sinkVars, mpc>>

\* save_detection(camera_name, timestamp, frame_number, video_timestamp, detections)
SaveDetection(c, ts, fn, vts, dets) ==
    /\ Len(records) < MaxRows
    /\ UseConnection
    /\ LET detection_data == PyDict(<<dets>>)
           detection_id == Len(records) + 1
       IN  /\ records' = Append(records,
                  [id |-> detection_id, camera_name |-> c, timestamp |-> ts,
                   frame_number |-> fn, video_timestamp |-> vts,
                   detection_data |-> JsonDumps(detection_data)])
           /\ result' = <<detection_id>>
    /\ call' = <<"save_detection", c, ts, fn, vts, dets>>
    /\ saved' = Append(saved, <<c, ts, fn, vts, dets>>)
    /\ ApiFrame

\* A lookup that hands out the stored column text without json.loads.
GetDetectionByIdRaw(detection_id) ==
    /\ UseConnection
    /\ LET rows == {i \in 1..Len(records) : records[i].id = detection_id}
       IN  result' = IF rows = {} THEN <<>>
                     ELSE LET r == records[CHOOSE i \in rows : TRUE]
                          IN  <<[RowDict(r) EXCEPT !.detection_data = r.detection_data]>>
    /\ call' = <<"get_detection_by_id", detection_id>>
    /\ UNCHANGED <<records, saved>>
    /\ ApiFrame

\* get_detection_by_id(detection_id): "WHERE id = ?", fetchone()
GetDetectionById(detection_id) ==
    /\ UseConnection
    /\ LET rows == {i \in 1..Len(records) : records[i].id = detection_id}
       IN  result' = IF rows = {} THEN <<>>
                     ELSE <<RowDict(records[CHOOSE i \in rows : TRUE])>>
    /\ call' = <<"get_detection_by_id", detection_id>>
    /\ UNCHANGED <<records, saved>>
    /\ ApiFrame

\* "ORDER BY timestamp ASC" over the rows with the positions S of the table:
\* ascending in the text order, rows of equal text in id order
RECURSIVE OrderByTimestamp(_, _)
OrderByTimestamp(tab, S) ==
    IF S = {} THEN <<>>
    ELSE LET m == CHOOSE i \in S : \A j \in S :
                      /\ TextLeq(tab[i].timestamp, tab[j].timestamp)
                      /\ tab[i].timestamp = tab[j].timestamp => i <= j
         IN  <<m>> \o OrderByTimestamp(tab, S \ {m})

\* get_detections_by_timerange(camera_name, start_time, end_time, limit): "WHERE
\* timestamp BETWEEN ? AND ? ORDER BY timestamp ASC", and " LIMIT {limit}" under
\* "if limit:"; limit is <<>> for None and <<n>> for n
GetDetectionsByTimerange(c, start_time, end_time, limit) ==
    /\ UseConnection
    /\ LET rows == {i \in 1..Len(records) :
                      /\ TextLeq(start_time, records[i].timestamp)
                      /\ TextLeq(records[i].timestamp, end_time)}
           ordered == OrderByTimestamp(records, rows)
           fetched == IF limit # <<>> /\ limit[1] # 0
                      THEN SubSeq(ordered, 1, Min(limit[1], Len(ordered)))
                      ELSE ordered
       IN  result' = [k \in 1..Len(fetched) |-> RowDict(records[fetched[k]])]
    /\ call' = <<"get_detections_by_timerange", c, start_time, end_time, limit>>
    /\ UNCHANGED <<records, saved>>
    /\ ApiFrame

\* "ABS(CAST((julianday(?) - julianday(timestamp)) * 24 * 60 * 60 AS INTEGER))":
\* the distance in whole seconds, the fraction cut off; julianday() of a text
\* that is no timestamp is NULL and so is the key, which sorts before every
\* number (-1 here)
SortKey(timestamp, r) ==
    IF WellFormed(r.timestamp)
    THEN Abs(ParseIso(timestamp) - ParseIso(r.timestamp)) \div TicksPerSecond
    ELSE -1

\* "WHERE camera_name = ? ORDER BY <SortKey> LIMIT 1": the rows of the camera
\* with the least key
NearestRows(c, timestamp) ==
    {i \in 1..Len(records) :
        /\ records[i].camera_name = c
        /\ \A j \in 1..Len(records) :
              records[j].camera_name = c
              => SortKey(timestamp, records[i]) <= SortKey(timestamp, records[j])}

\* fetchone() on that query: SQLite walks the camera's rows in the order they
\* were stored and keeps the first of the rows with equal keys
FetchOne(S) == CHOOSE i \in S : \A j \in S : i <= j

\* A lookup that parses its timestamp only once it holds a connection.
GetNearestDetectionParsesInside(c, timestamp) ==
    /\ UseConnection
    /\ LET rows == NearestRows(c, timestamp)
       IN  result' = IF ~WellFormed(timestamp) \/ rows = {} THEN <<>>
                     ELSE <<RowDict(records[FetchOne(rows)])>>
    /\ call' = <<"get_nearest_detection", c, timestamp>>
    /\ UNCHANGED <<records, saved>>
    /\ ApiFrame

\* get_nearest_detection(camera_name, timestamp): "except ValueError: return
\* None" before the connection is asked for
GetNearestDetection(c, timestamp) ==
    /\ IF ~WellFormed(timestamp)
       THEN /\ call = <<"none">>
            /\ result' = <<>>
            /\ UNCHANGED poolVars
       ELSE /\ UseConnection
            /\ LET rows == NearestRows(c, timestamp)
               IN  result' = IF rows = {} THEN <<>>
                             ELSE <<RowDict(records[FetchOne(rows)])>>
    /\ call' = <<"get_nearest_detection", c, timestamp>>
    /\ UNCHANGED <<records, saved>>
    /\ ApiFrame

\* get_nearest_detection_with_tolerance(camera_name, timestamp,
\* tolerance_seconds), the tolerance in ticks: the same parse and the same
\* query; the row is kept when
\* "abs((target_time - detection_time).total_seconds()) <= tolerance_seconds",
\* and fromisoformat() of the row's own timestamp raises when that is no
\* timestamp
GetNearestDetectionWithTolerance(c, timestamp, tolerance_seconds) ==
    /\ IF ~WellFormed(timestamp)
       THEN /\ call = <<"none">>
            /\ result' = <<>>
            /\ UNCHANGED poolVars
       ELSE /\ UseConnection
            /\ LET rows == NearestRows(c, timestamp)
               IN  IF rows = {} THEN result' = <<>>
                   ELSE LET r == records[FetchOne(rows)]
                            time_diff == Abs(ParseIso(timestamp) - ParseIso(r.timestamp))
                        IN  result' = IF ~WellFormed(r.timestamp)
                                      THEN <<[raised |-> "ValueError"]>>
                                      ELSE IF time_diff <= tolerance_seconds
                                      THEN <<RowDict(r)>> ELSE <<>>
    /\ call' = <<"get_nearest_detection_with_tolerance", c, timestamp,
                 tolerance_seconds>>
    /\ UNCHANGED <<records, saved>>
    /\ ApiFrame

\* "ORDER BY timestamp DESC" over the rows with the positions S of the table:
\* descending in the text order; rows of equal text come in id order when the
\* rows are sorted after an index search (up), and in reverse id order when
\* they are read backwards off the timestamp index
RECURSIVE OrderByTimestampDesc(_, _, _)
OrderByTimestampDesc(tab, S, up) ==
    IF S = {} THEN <<>>
    ELSE LET m == CHOOSE i \in S : \A j \in S :
                      /\ TextLeq(tab[j].timestamp, tab[i].timestamp)
                      /\ tab[i].timestamp = tab[j].timestamp
                         => IF up THEN i <= j ELSE j <= i
         IN  <<m>> \o OrderByTimestampDesc(tab, S \ {m}, up)

\* get_latest_detections(camera_name, limit): "WHERE camera_name = ? ORDER BY
\* timestamp DESC LIMIT ?"
GetLatestDetections(c, limit) ==
    /\ UseConnection
    /\ LET rows == {i \in 1..Len(records) : records[i].camera_name = c}
           ordered == OrderByTimestampDesc(records, rows, TRUE)
           fetched == SubSeq(ordered, 1, Min(limit, Len(ordered)))
       IN  result' = [k \in 1..Len(fetched) |-> RowDict(records[fetched[k]])]
    /\ call' = <<"get_latest_detections", c, limit>>
    /\ UNCHANGED <<records, saved>>
    /\ ApiFrame

\* list(reversed(q))
Reversed(q) == [k \in 1..Len(q) |-> q[Len(q) + 1 - k]]

\* get_timeline_data(limit): "ORDER BY timestamp DESC LIMIT ?" over all rows,
\* read off the timestamp index, and the rows fetched returned in reverse
GetTimelineData(limit) ==
    /\ UseConnection
    /\ LET ordered == OrderByTimestampDesc(records, 1..Len(records), FALSE)
           fetched == SubSeq(ordered, 1, Min(limit, Len(ordered)))
           detections_ == [k \in 1..Len(fetched) |-> RowDict(records[fetched[k]])]
       IN  result' = Reversed(detections_)
    /\ call' = <<"get_timeline_data", limit>>
    /\ UNCHANGED <<records, saved>>
    /\ ApiFrame

\* "MAX(timestamp)" over the rows with the positions S: greatest in the text order
MaxTimestamp(S) ==
    records[CHOOSE i \in S : \A j \in S :
                TextLeq(records[j].timestamp, records[i].timestamp)].timestamp

\* "MIN(timestamp)": least in the text order
MinTimestamp(S) ==
    records[CHOOSE i \in S : \A j \in S :
                TextLeq(records[i].timestamp, records[j].timestamp)].timestamp

\* the float a / b, as the fraction in lowest terms
RECURSIVE Gcd(_, _)
Gcd(a, b) == IF b = 0 THEN a ELSE Gcd(b, a % b)
Ratio(a, b) == <<a \div Gcd(a, b), b \div Gcd(a, b)>>

\* "json_array_length(detection_data, '$.detections')" of a row
JsonArrayLength(r) == Len(r.detection_data.items[1].items)

\* get_detection_stats(): COUNT(*), MIN and MAX of timestamp, and the AVG of
\* the array lengths; None (<<>>) for the bounds and 0 for the average of an
\* empty table
GetDetectionStats ==
    /\ UseConnection
    /\ LET all == 1..Len(records)
           total_detections == Len(records)
           lengths == [i \in all |-> JsonArrayLength(records[i])]
       IN  result' = <<[total_detections |-> total_detections,
                        date_range |->
                            [start |-> IF all = {} THEN <<>> ELSE MinTimestamp(all),
                             end |-> IF all = {} THEN <<>> ELSE MaxTimestamp(all)],
                        average_detections_per_frame |->
                            IF all = {} THEN Ratio(0, 1)
                            ELSE Ratio(SumOver(lengths, all), total_detections)]>>
    /\ call' = <<"get_detection_stats">>
    /\ UNCHANGED <<records, saved>>
    /\ ApiFrame

\* the hour of get_cameras ("> 3600"), in ticks, and the readings of
\* datetime.now() explored: from just under an hour to just over an hour after
\* the instants of the stored timestamps
Hour == 3600 * TicksPerSecond
Nows == {Hour + d : d \in (0 - 2)..(MaxStamp + 2)}

\* get_cameras(), lines 276-286: the status of a camera last seen at last_seen
\* when datetime.now() reads now; the bare except covers the failed parse
Status(last_seen, now) ==
    IF last_seen = <<>> THEN "offline"
    ELSE IF ~WellFormed(last_seen) THEN "offline"
    ELSE IF now - ParseIso(last_seen) > Hour THEN "offline"
    ELSE "live"

\* "GROUP BY camera_name ORDER BY last_seen DESC" over the cameras G: descending
\* in the text order of last_seen, groups of equal last_seen in name order
RECURSIVE OrderByLastSeen(_)
OrderByLastSeen(G) ==
    IF G = {} THEN <<>>
    ELSE LET seen(c) == MaxTimestamp({i \in 1..Len(records) : records[i].camera_name = c})
             m == CHOOSE c \in G : \A e \in G :
                      /\ TextLeq(seen(e), seen(c))
                      /\ seen(e) = seen(c) => c <= e
         IN  <<m>> \o OrderByLastSeen(G \ {m})

\* get_cameras(), datetime.now(timezone.utc) reading now
GetCameras(now) ==
    /\ UseConnection
    /\ LET rowsOf(c) == {i \in 1..Len(records) : records[i].camera_name = c}
           groups == OrderByLastSeen({c \in Cameras : rowsOf(c) # {}})
       IN  result' = [k \in 1..Len(groups) |->
                        [name |-> groups[k],
                         status |-> Status(MaxTimestamp(rowsOf(groups[k])), now),
                         last_seen |-> MaxTimestamp(rowsOf(groups[k])),
                         detection_count |-> Cardinality(rowsOf(groups[k]))]]
    /\ call' = <<"get_cameras", now>>
    /\ UNCHANGED <<records, saved>>
    /\ ApiFrame

\* the client takes the result and is ready for its next call
ResultTaken ==
    /\ call # <<"none">>
    /\ call' = <<"none">>
    /\ result' = <<>>
    /\ UNCHANGED <<poolVars, records, saved>>
    /\ ApiFrame

\* the store after init_db(), no streamer running
StoreInit == PoolStarted /\ NoTasks /\ NoStreams

Limits == {<<>>} \cup {<<n>> : n \in 0..MaxLimit}

StoreNext ==
    \/ \E c \in Cameras, ts \in Stamps, p \in Payloads :
          SaveDetection(c, ts, p[1], p[2], p[3])
    \/ \E detection_id \in 1..(MaxRows + 1) : GetDetectionById(detection_id)
    \/ \E c \in Cameras, t1, t2 \in Stamps, limit \in Limits :
          GetDetectionsByTimerange(c, t1, t2, limit)
    \/ \E c \in Cameras, ts \in Stamps : GetNearestDetection(c, ts)
    \/ \E c \in Cameras, ts \in Stamps, tol \in 0..MaxTol :
          GetNearestDetectionWithTolerance(c, ts, tol)
    \/ \E c \in Cameras, limit \in 0..MaxRows : GetLatestDetections(c, limit)
    \/ \E limit \in 0..MaxRows : GetTimelineData(limit)
    \/ GetDetectionStats
    \/ ResultTaken

SpecStore == StoreInit /\ [][StoreNext]_vars

\* The same store called with texts of any kind, timestamps or not.
StoreTextsNext ==
    \/ \E c \in Cameras, ts \in Texts, p \in Payloads :
          SaveDetection(c, ts, p[1], p[2], p[3])
    \/ \E c \in Cameras, ts \in Texts : GetNearestDetection(c, ts)
    \/ \E c \in Cameras, ts \in Texts, tol \in 0..MaxTol :
          GetNearestDetectionWithTolerance(c, ts, tol)
    \/ \E now \in Nows : GetCameras(now)
    \/ ResultTaken

SpecStoreTexts == StoreInit /\ [][StoreTextsNext]_vars

\* ------------------------------------------------------------ pool claims

\* C1: however many tasks call initialize() concurrently, between two close()s
\* at most max_connections connections are created, exactly max_connections once
\* the pool is initialized, and all of them by one caller: every other caller
\* creates none.
C1_IdempotentInit ==
    /\ SumOver(made, Tasks) <= max_connections
    /\ initialized => SumOver(made, Tasks) = max_connections
    /\ Cardinality({t \in Tasks : made[t] > 0}) <= 1

\* The pool is initialized by one caller; a second caller, whose get_connection()
\* went through initialize(), returned from it without creating and holds a
\* connection; a third is still queued on the lock.
C1_Witness ==
    /\ initialized
    /\ \E t1, t2, t3 \in Tasks :
          /\ t1 # t2 /\ t1 # t3 /\ t2 # t3
          /\ made[t1] = max_connections
          /\ tfromGet[t2] /\ tpc[t2] = "holding" /\ made[t2] = 0
          /\ tpc[t3] = "init_lock"

\* C2: whenever a scoped acquisition exits, by return or by exception, its
\* connection goes back to the pool in that step: the idle count grows by one
\* and, when no other task changed the pool meanwhile, equals the count just
\* before the acquisition.
C2_ScopedRelease ==
    [][\A t \in Tasks :
          (tpc[t] \in {"holding", "put"} /\ tpc'[t] = "idle")
          => /\ tconn[t] \in SeqToSet(pool')
             /\ Len(pool') = Len(pool) + 1
             /\ (~disturbed[t] => Len(pool') = idleBefore[t])]_vars

\* A scope whose work raised has exited, undisturbed, and every connection is idle.
C2_Witness ==
    \E t \in Tasks :
        /\ raised[t] /\ tpc[t] = "idle" /\ tconn[t] = 0
        /\ initialized
        /\ Len(pool) = max_connections

\* C3: the number of open physical connections never exceeds max_connections.
C3_OpenWithinMax == Cardinality(open) <= max_connections

\* A step in which task t's close() returns: after waiting for the lock or for
\* a connection to close, or within the call itself.
CloseReturns(t) ==
    \/ tpc[t] \in {"close_lock", "close_conn"} /\ tpc'[t] = "idle"
    \/ tpc[t] = "idle" /\ closeCalls' # closeCalls /\ tpc' = tpc

\* C4: when close() returns every connection the pool created is closed, the
\* pool is empty and it is marked uninitialized.
C4_CloseClosesAll ==
    [][\A t \in Tasks :
          CloseReturns(t) => (open' = {} /\ pool' = <<>> /\ ~initialized')]_vars

\* -------------------------------------------------------- streamer claims
CeilDiv(a, b) == (a + b - 1) \div b

\* C5: in a reconnect episode, under every ceiling, the waits are
\* non-decreasing and each is at most the ceiling.
C5_BackoffMonotoneCapped ==
    \A s \in Cameras : \A i \in 1..Len(waits[s]) :
        /\ waits[s][i] <= max_reconnect_backoff
        /\ i > 1 => waits[s][i - 1] <= waits[s][i]

\* the time the gate has to measure from: the last emitted frame, or the start
LastEmit(s) == IF emitTimes[s] = <<>> THEN startTime[s]
               ELSE emitTimes[s][Len(emitTimes[s])]

\* every window [a, a + D] of the clock holds at most ceil(D * fps) + 1 of the
\* emission times e (D in ticks, fps per second)
WindowBound(e) ==
    \A a \in 0..MaxTime, D \in 0..MaxTime :
        Cardinality({k \in 1..Len(e) : a <= e[k] /\ e[k] <= a + D})
           <= CeilDiv(D * FPS, TicksPerSecond) + 1

\* C6: a frame that was read is emitted exactly when at least 1/fps seconds
\* have passed since the last emitted frame (since the start of stream() for the
\* first), a gated frame changes nothing and the loop goes on; and after every
\* emission any window of D ticks holds at most ceil(D * fps) + 1 emitted frames.
C6_FrameRateGate ==
    [][\A s \in Cameras :
          /\ (spc[s] = "read" /\ spc'[s] # "read" /\ ret'[s] = "ok")
             => /\ (frame_number'[s] = frame_number[s] + 1)
                      <=> ((clock - LastEmit(s)) * FPS >= TicksPerSecond)
                /\ frame_number'[s] \in {frame_number[s], frame_number[s] + 1}
                /\ frame_number'[s] = frame_number[s]
                      => (spc'[s] = "loop" /\ emitTimes'[s] = emitTimes[s])
          /\ emitTimes'[s] # emitTimes[s] => WindowBound(emitTimes'[s])]_vars

\* Half an interval after the start a frame was read and discarded: nothing
\* has been emitted.
C6_Witness ==
    \E s \in Cameras :
        /\ ret[s] = "ok" /\ spc[s] = "loop" /\ frame_number[s] = 0
        /\ clock > startTime[s]
        /\ (clock - startTime[s]) * FPS < TicksPerSecond

\* C7: every record in the store has a non-empty detections list.
C7_NoEmptyRecord == \A i \in 1..Len(records) : records[i].detections > 0

\* Frame 1 was persisted; frame 2 had no detection and went round the loop
\* without a record.
C7_Witness ==
    \E s \in Cameras :
        /\ db /\ frame_number[s] = 2 /\ detections[s] = 0 /\ spc[s] = "loop"
        /\ dropped[s] = 0
        /\ Len(records) = 1 /\ records[1].frame_number = 1

\* C8: a store write that raises leaves the streamer in the loop (it neither
\* stops nor cleans up), adds no record and leaves no connection held; the next
\* step of the loop is its while condition.
C8_SaveFailureSwallowed ==
    [][\A s \in Cameras :
          dropped'[s] # dropped[s]
          => /\ spc'[s] = "loop"
             /\ records' = records
             /\ sconn'[s] = 0
             /\ Len(pool') = Len(pool) + (IF sconn[s] # 0 THEN 1 ELSE 0)]_vars

\* The write of frame 1 raised; the streamer went on and persisted frame 2.
C8_Witness ==
    \E s \in Cameras :
        /\ dropped[s] = 1 /\ frame_number[s] = 2
        /\ Len(records) = 1 /\ records[1].frame_number = 2
        /\ records[1].camera_name = s

Reconnecting(s) == spc[s] \in {"rc_sleep", "rc_open"}

\* C9: with a reconnect address, a failed read starts a reconnect attempt
\* unless shutdown is already signalled; a failed reopen starts the next
\* attempt unless shutdown is signalled; the reconnect loop is left for the
\* cleanup only under shutdown and for the read loop only with an opened handle.
C9_ReadFailureNotFatal ==
    [][\A s \in Cameras : rtsp_url[s] =>
          /\ (spc[s] = "read" /\ spc'[s] # "read" /\ ret'[s] = "fail")
             => IF Stopping(s) THEN spc'[s] = "cleanup" ELSE spc'[s] = "rc_sleep"
          /\ (spc[s] = "rc_open" /\ spc'[s] \notin {"rc_open", "loop"} /\ ~Stopping(s))
             => spc'[s] = "rc_sleep"
          /\ (Reconnecting(s) /\ spc'[s] = "cleanup") => Stopping(s)
          /\ (Reconnecting(s) /\ spc'[s] = "loop") => cap'[s] = "open"
          /\ (Reconnecting(s) /\ ~Reconnecting(s)') => spc'[s] \in {"cleanup", "loop"}]_vars

\* After three failed reopens the fourth succeeded, no shutdown is signalled
\* and the streamer reads again.
C9_Witness ==
    \E s \in Cameras :
        /\ rtsp_url[s] /\ ret[s] = "fail" /\ Len(waits[s]) >= 4
        /\ spc[s] = "read" /\ cap[s] = "open" /\ ~Stopping(s)

\* C10: without a reconnect address a failed read is followed by the cleanup
\* alone: no wait, no release or reopen of the handle, no further read.
C10_NoAddressStops ==
    \A s \in Cameras :
        (~rtsp_url[s] /\ ret[s] = "fail")
        => /\ spc[s] \in {"cleanup", "stopped"}
           /\ waits[s] = <<>>
           /\ wait_time[s] = 0
           /\ spc[s] = "cleanup" => cap[s] = "open"

\* A streamer without an address stopped on a failed read with no shutdown
\* signalled, after emitting a frame.
C10_Witness ==
    \E s \in Cameras :
        /\ ~rtsp_url[s] /\ ret[s] = "fail" /\ spc[s] = "stopped"
        /\ ~Stopping(s) /\ frame_number[s] >= 1

\* C13: however stream() exits (shutdown, a failed read without an address, an
\* exception of the inference call or of the sink write), it reaches STOPPED only
\* through the cleanup, and in STOPPED the frame source is released, the sink's
\* input is closed and the sink waited on, and the reader threads are joined;
\* until then the sink runs and the readers are not joined.
C13_CleanupOnEveryExit ==
    /\ \A s \in Cameras :
          /\ spc[s] = "stopped"
             => /\ cap[s] = "released"
                /\ process[s] = "waited"
                /\ ffmpeg_threads[s] = "joined"
          /\ spc[s] \notin {"stopped", "none"}
             => /\ process[s] = "running"
                /\ ffmpeg_threads[s] = "running"

\* A streamer is STOPPED with no shutdown signalled and its last read a frame:
\* an exception of the inference call or of the sink write ended it.
C13_Witness ==
    \E s \in Cameras :
        /\ spc[s] = "stopped" /\ ~Stopping(s) /\ ret[s] = "ok"
        /\ frame_number[s] >= 1

\* C14: listed by store id, the records of one camera have strictly increasing
\* frame_number (so none is persisted twice), reconnect episodes included; the
\* ids themselves are the positions in insertion order.
C14_FrameOrder ==
    /\ \A i \in 1..Len(records) : records[i].id = i
    /\ \A i, j \in 1..Len(records) :
          (i < j /\ records[i].camera_name = records[j].camera_name)
          => records[i].frame_number < records[j].frame_number

\* A camera persisted a frame, lost its stream, reconnected and persisted the
\* next frame.
C14_Witness ==
    \E s \in Cameras :
        /\ Len(records) = 2 /\ waits[s] # <<>> /\ cap[s] = "open"
        /\ records[1].camera_name = s /\ records[2].camera_name = s
        /\ records[1].frame_number = 1 /\ records[2].frame_number = 2

\* ------------------------------------------------------- liveness claims

\* C11: once the shared shutdown signal is set, a streamer, wherever it is in
\* its read loop or in its reconnect loop, eventually is STOPPED (every blocking
\* call of its worker returning).
C11_ShutdownStopsAll ==
    \A s \in Cameras :
        (shutdown_event /\ spc[s] # "none") ~> (spc[s] = "stopped")

\* The shared signal, and not the streamer's own flag, is set and the streamer
\* is STOPPED; its last read had failed and it had waited to reconnect.
C11_Witness ==
    /\ shutdown_event
    /\ \E s \in Cameras :
          /\ spc[s] = "stopped" /\ ~shutdown[s]
          /\ ret[s] = "fail" /\ rtsp_url[s] /\ waits[s] # <<>>

\* ------------------------------------------------------ supervisor claims

\* the store's pool is being closed or has been closed by main()
PoolClosing == mpc[1] \in {"close", "done"} \/ closeCalls > 0 \/ (db /\ ~initialized)

\* C12: main() closes the store's pool only after every camera worker has
\* terminated: from the moment it turns to the close, every streamer is STOPPED
\* and none holds a pooled connection or is inside save_detection.
C12_CloseAfterWorkers ==
    PoolClosing
    => \A s \in Cameras : spc[s] = "stopped" /\ sconn[s] = 0

\* main() has closed the pool of a store into which a worker had saved.
C12_Witness ==
    /\ mpc = <<"done">> /\ db /\ closeCalls = 1 /\ ~initialized
    /\ Len(records) >= 1

\* C15: a save_detection that succeeds adds exactly one row, whose id (the id
\* the call returns, cursor.lastrowid) is greater than every id assigned
\* before; no step removes or changes an existing row or adds more than one;
\* also with several workers inside save_detection on different connections.
C15_AppendOnly ==
    [][/\ Len(records') >= Len(records)
       /\ \A i \in 1..Len(records) : records'[i] = records[i]
       /\ records' # records
          => /\ Len(records') = Len(records) + 1
             /\ \A i \in 1..Len(records) : records'[Len(records')].id > records[i].id
       /\ \A s \in Cameras :
             (spc[s] = "saving" /\ spc'[s] = "loop" /\ dropped'[s] = dropped[s])
             => /\ Len(records') = Len(records) + 1
                /\ records'[Len(records')].camera_name = s]_vars

\* Two workers were inside save_detection at once: one still holds the
\* connection that was first in the queue, the other took the next one and
\* its row is stored.
C15_Witness ==
    \E s1, s2 \in Cameras :
        /\ s1 # s2
        /\ spc[s1] = "saving" /\ sconn[s1] = 2
        /\ Len(records) = 1 /\ records[1].camera_name = s2
        /\ frame_number[s1] = 1 /\ frame_number[s2] = 1
        /\ dropped[s1] = 0 /\ dropped[s2] = 0

\* ----------------------------------------------------------- store claims

\* a Python value with every tuple in it replaced by the list of the same items
RECURSIVE AsLists(_)
AsLists(v) ==
    IF v.py \in {"list", "tuple", "dict"}
    THEN [py |-> IF v.py = "tuple" THEN "list" ELSE v.py,
          items |-> [i \in 1..Len(v.items) |-> AsLists(v.items[i])]]
    ELSE v

\* the result of get_detection_by_id(call[2]) is a record with the columns that
\* were saved under that id and the detections list dets
RoundTrip(dets) ==
    /\ Len(result) = 1
    /\ result[1].id = call[2]
    /\ result[1].camera_name = saved[call[2]][1]
    /\ result[1].timestamp = saved[call[2]][2]
    /\ result[1].frame_number = saved[call[2]][3]
    /\ result[1].video_timestamp = saved[call[2]][4]
    /\ result[1].detection_data = PyDict(<<dets>>)

\* C16 as stated: save_detection returns a fresh id, get_detection_by_id with
\* an id it returned yields the saved camera_name, timestamp, frame_number,
\* video_timestamp and the same detections list, and any other id yields none.
C16_RoundTripSameList ==
    /\ call[1] = "save_detection" => result = <<Len(saved)>>
    /\ call[1] = "get_detection_by_id"
       => IF call[2] \in 1..Len(saved) THEN RoundTrip(saved[call[2]][5])
          ELSE result = <<>>

\* C16 amended: as above, but the detections list comes back as JSON reads
\* it: equal to the saved list with every tuple in it returned as a list.
C16_RoundTripAsLists ==
    /\ call[1] = "save_detection" => result = <<Len(saved)>>
    /\ call[1] = "get_detection_by_id"
       => IF call[2] \in 1..Len(saved) THEN RoundTrip(AsLists(saved[call[2]][5]))
          ELSE result = <<>>

\* The second saved record, whose bbox was a tuple, has been looked up.
C16_Witness ==
    /\ call = <<"get_detection_by_id", 2>>
    /\ Len(saved) = 2 /\ saved[2][5] # AsLists(saved[2][5])
    /\ result # <<>>

\* the instant of a row or of a returned record
When(r) == ParseIso(r.timestamp)

\* C17: with no limit and start no later than end,
\* get_detections_by_timerange(camera, start, end) returns exactly the records
\* whose time lies in [start, end], bounds included, in ascending order of time.
C17_TimerangeExact ==
    (/\ call[1] = "get_detections_by_timerange" /\ call[5] = <<>>
     /\ ParseIso(call[3]) <= ParseIso(call[4]))
    => LET inRange == {i \in 1..Len(records) :
                          /\ ParseIso(call[3]) <= When(records[i])
                          /\ When(records[i]) <= ParseIso(call[4])}
       IN  /\ {result[k].id : k \in 1..Len(result)} = {records[i].id : i \in inRange}
           /\ Len(result) = Cardinality(inRange)
           /\ \A k \in 1..(Len(result) - 1) : When(result[k]) <= When(result[k + 1])

\* C18: every record get_detections_by_timerange(camera, start, end) returns
\* is a record of that camera.
C18_TimerangeOfCamera ==
    call[1] = "get_detections_by_timerange"
    => \A k \in 1..Len(result) : result[k].camera_name = call[2]

\* the rows of camera c, and the least distance of one of them to the text ts
RowsOf(c) == {i \in 1..Len(records) : records[i].camera_name = c}
Distance(ts, r) == Abs(ParseIso(ts) - When(r))
IsNearest(c, ts, d) ==
    /\ d.camera_name = c
    /\ \E i \in RowsOf(c) : records[i].id = d.id
    /\ \A j \in RowsOf(c) : Distance(ts, d) <= Distance(ts, records[j])

\* C19: get_nearest_detection(camera, t) returns none exactly when the camera
\* has no record, and otherwise a record of that camera whose distance to t is
\* least among the camera's records, fractions of a second counted.
C19_NearestIsNearest ==
    call[1] = "get_nearest_detection"
    => IF RowsOf(call[2]) = {} THEN result = <<>>
       ELSE Len(result) = 1 /\ IsNearest(call[2], call[3], result[1])

\* C20: get_nearest_detection_with_tolerance(camera, t, tol) returns a nearest
\* record of the camera when some record of the camera lies within tol of t
\* (distance equal to tol included), and none otherwise.
C20_NearestWithinTolerance ==
    call[1] = "get_nearest_detection_with_tolerance"
    => IF \E i \in RowsOf(call[2]) : Distance(call[3], records[i]) <= call[4]
       THEN Len(result) = 1 /\ IsNearest(call[2], call[3], result[1])
       ELSE result = <<>>

\* C21: a call of get_nearest_detection or
\* get_nearest_detection_with_tolerance with a text that is no timestamp
\* returns none, as for a camera without records, and leaves the pool and the
\* table as they were.
C21_MalformedIsNotFound ==
    [][(/\ call'[1] \in {"get_nearest_detection", "get_nearest_detection_with_tolerance"}
        /\ call' # call
        /\ ~WellFormed(call'[3]))
       => /\ result' = <<>>
          /\ UNCHANGED <<poolVars, records>>]_vars

\* A lookup has answered none to "x" for a camera that has a record.
C21_Witness ==
    /\ call[1] \in {"get_nearest_detection", "get_nearest_detection_with_tolerance"}
    /\ call[3] = Malformed
    /\ result = <<>>
    /\ \E i \in 1..Len(records) :
          records[i].camera_name = call[2] /\ WellFormed(records[i].timestamp)

\* the ids of the returned records
Ids(res) == {res[k].id : k \in 1..Len(res)}

\* C22: get_latest_detections(camera, limit) returns min(limit, number of the
\* camera's records) records, all of that camera, latest first, and no record
\* of the camera that it leaves out is later than one it returns.
C22_LatestOfCamera ==
    call[1] = "get_latest_detections"
    => LET rows == RowsOf(call[2])
       IN  /\ Len(result) = Min(call[3], Cardinality(rows))
           /\ Cardinality(Ids(result)) = Len(result)
           /\ Ids(result) \subseteq {records[i].id : i \in rows}
           /\ \A k \in 1..Len(result) : result[k].camera_name = call[2]
           /\ \A k \in 1..(Len(result) - 1) : When(result[k]) >= When(result[k + 1])
           /\ \A k \in 1..Len(result) : \A j \in rows :
                 records[j].id \notin Ids(result) => When(result[k]) >= When(records[j])

\* the instant of the latest of the rows of camera c, all of them timestamps
Latest(c) == CHOOSE t \in {When(records[i]) : i \in RowsOf(c)} :
                 \A i \in RowsOf(c) : When(records[i]) <= t

\* C23: get_cameras lists every camera that has records; a camera whose latest
\* record is at most 3600 seconds older than the current time is "live", one
\* whose latest record is older is "offline", and so is a camera whose
\* last_seen cannot be parsed.
C23_LiveWithinTheHour ==
    call[1] = "get_cameras"
    => /\ {result[k].name : k \in 1..Len(result)} = {c \in Cameras : RowsOf(c) # {}}
       /\ \A k \in 1..Len(result) :
             LET e == result[k]
             IN  /\ ~WellFormed(e.last_seen) => e.status = "offline"
                 /\ (\A i \in RowsOf(e.name) : WellFormed(records[i].timestamp))
                    => e.status = IF call[2] - Latest(e.name) <= Hour
                                  THEN "live" ELSE "offline"

\* C24: get_timeline_data(limit) returns min(limit, number of records) records
\* of any camera, oldest first, and no record that it leaves out is later than
\* one it returns.
C24_TimelineLatestAscending ==
    call[1] = "get_timeline_data"
    => /\ Len(result) = Min(call[2], Len(records))
       /\ Cardinality(Ids(result)) = Len(result)
       /\ Ids(result) \subseteq {records[i].id : i \in 1..Len(records)}
       /\ \A k \in 1..(Len(result) - 1) : When(result[k]) <= When(result[k + 1])
       /\ \A k \in 1..Len(result) : \A j \in 1..Len(records) :
             records[j].id \notin Ids(result) => When(result[k]) >= When(records[j])

\* C25: get_detection_stats returns the number of stored records, the mean
\* number of person detections per record (0 for an empty store), and the
\* timestamps of the earliest and of the latest stored record (none for an
\* empty store).
C25_StatsOfStore ==
    call[1] = "get_detection_stats"
    => LET st == result[1]
           all == 1..Len(records)
           persons == [i \in all |-> Len(saved[i][5].items)]
       IN  /\ st.total_detections = Len(records)
           /\ st.average_detections_per_frame[1] * Len(records)
                 = st.average_detections_per_frame[2] * SumOver(persons, all)
           /\ all = {} => /\ st.average_detections_per_frame[1] = 0
                          /\ st.date_range = [start |-> <<>>, end |-> <<>>]
           /\ all # {} => /\ \E i \in all : records[i].timestamp = st.date_range.start
                          /\ \E i \in all : records[i].timestamp = st.date_range.end
                          /\ \A i \in all :
                                /\ ParseIso(st.date_range.start) <= When(records[i])
                                /\ When(records[i]) <= ParseIso(st.date_range.end)

\* ----------------------------------------------------------- startup claims

\* C26: when the creation of a connection fails inside initialize(), the
\* caller gets the failure, the pool stays uninitialized, and the connections
\* that this call had created and queued are closed and out of the queue.
C26_FailedInitializeCleansUp ==
    [][\A t \in Tasks :
          (tpc[t] = "create" /\ tpc'[t] = "idle" /\ nextConn' = nextConn)
          => /\ raised'[t]
             /\ ~initialized'
             /\ Cardinality(open') = Cardinality(open) - tloop[t]
             /\ Len(pool') = Len(pool) - tloop[t]]_vars

\* C27: when initialize() cannot create its max_connections connections at
\* startup, main() ends before it starts a worker; so a worker only ever runs
\* with a store whose pool was filled completely.
C27_NoStartOnFailedInit ==
    /\ mpc = <<"aborted">> => \A s \in Cameras : spc[s] = "none"
    /\ (db /\ nextConn <= max_connections /\ mpc # <<"init_db">>)
       => mpc = <<"aborted">>
    /\ \A s \in Cameras :
          (spc[s] # "none" /\ db) => nextConn = max_connections + 1

\* Startup was given up with one connection of the pool created.
C27_Witness ==
    /\ mpc = <<"aborted">>
    /\ db /\ ~initialized
    /\ Len(pool) = 1 /\ Len(pool) < max_connections
    /\ \A s \in Cameras : spc[s] = "none"

\* ------------------------------------------------------- isolation claims

\* the workers that hold a pooled connection
Holders == {s \in Cameras : sconn[s] # 0}

\* C28: with all camera workers running, a worker holds a pooled connection
\* only inside save_detection, no connection is held by two workers, and the
\* connections missing from the queue are as many as the workers inside
\* save_detection: one each.
C28_OneConnectionPerWorker ==
    /\ \A s \in Holders : spc[s] = "saving" /\ sconn[s] \in open
    /\ \A s \in Cameras : spc[s] = "saving" => s \in Holders
    /\ \A s, u \in Holders : s # u => sconn[s] # sconn[u]
    /\ \A s \in Holders : sconn[s] \notin SeqToSet(pool)
    /\ Cardinality(open \ SeqToSet(pool)) = Cardinality(Holders)

\* Two workers are inside save_detection at once, each with its own
\* connection, and the queue is empty.
C28_Witness ==
    \E s, u \in Cameras :
        /\ s # u
        /\ spc[s] = "saving" /\ spc[u] = "saving"
        /\ sconn[s] # 0 /\ sconn[u] # 0 /\ sconn[s] # sconn[u]
        /\ pool = <<>>

\* a step in which something fails inside the streamer of camera s: a read, a
\* reopening, a store write, or a call whose exception ends stream()
Failure(s) ==
    ReadFails(s) \/ ReopenFails(s) \/ SaveFails(s) \/ InferRaises(s) \/ WriteRaises(s)

\* everything that belongs to the streamer of camera u
OwnState(u) ==
    <<spc[u], shutdown[u], frame_number[u], last_output_time[u], emitTimes[u],
      wait_time[u], waits[u], cap[u], ret[u], detections[u], sconn[u], dropped[u],
      process[u], ffmpeg_threads[u]>>

\* C29: a failure inside one camera's streamer changes nothing of another
\* camera's streamer, does not set the shared shutdown event, takes no
\* connection away from the queue or the pool, and does not move the
\* supervisor, which goes on waiting for its workers.
C29_FailuresStayLocal ==
    [][\A s \in Cameras :
          Failure(s)
          => /\ \A u \in Cameras \ {s} : OwnState(u)' = OwnState(u)
             /\ shutdown_event' = shutdown_event
             /\ Len(pool') >= Len(pool)
             /\ open' = open /\ initialized' = initialized
             /\ records' = records
             /\ mpc' = mpc]_vars

\* One camera's streamer has ended on a failed read and its store write had
\* failed before, no shutdown was asked for, and another camera's worker is
\* inside save_detection with its frame.
C29_Witness ==
    \E s, u \in Cameras :
        /\ s # u
        /\ spc[s] = "stopped" /\ ret[s] = "fail" /\ dropped[s] > 0
        /\ ~shutdown_event /\ ~shutdown[u]
        /\ spc[u] = "saving" /\ frame_number[u] >= 1
        /\ mpc[1] = "join"

\* ------------------------------------------------------------ counter claims
\* the step reads a frame that the frame-rate gate lets through
Emits(s) ==
    /\ spc[s] = "read" /\ ret'[s] = "ok" /\ spc'[s] = "infer"
    /\ (clock - last_output_time[s]) * FPS >= TicksPerSecond

\* C30: frame_number is at all times the number of frames that have passed
\* the frame-rate gate: 0 before the first of them, one more with each of
\* them, and the same after a gated frame, a failed read, and every step of a
\* reconnect.
C30_FrameNumberCountsEmitted ==
    [][\A s \in Cameras :
          /\ frame_number[s] = Len(emitTimes[s])
          /\ frame_number'[s] = Len(emitTimes'[s])
          /\ frame_number'[s] =
                 IF ReadOk(s) /\ Emits(s) THEN frame_number[s] + 1 ELSE frame_number[s]
          /\ (ReadOk(s) /\ ~Emits(s)) \/ ReadFails(s) \/ SleepReturns(s)
                 \/ ReopenOk(s) \/ ReopenFails(s)
             => frame_number'[s] = frame_number[s]]_vars

\* The second frame of a run has just passed the gate, in a run that went
\* through a failed read and a reconnect.
C30_Witness ==
    \E s \in Cameras :
        /\ frame_number[s] = 2 /\ Len(emitTimes[s]) = 2
        /\ spc[s] = "infer" /\ waits[s] # <<>> /\ cap[s] = "open"


\* ----------------------------------------------------------- shutdown claims
\* C31: once the shutdown signal is set for a streamer, its frame counter
\* grows by at most one more (the frame of the read in flight), and it starts
\* no backoff sleep: the sleep in progress and the reopening after it are the
\* last ones.
C31_BoundedShutdown ==
    /\ \A s \in Cameras : \A n \in 0..MaxTime :
          [](Stopping(s) /\ frame_number[s] = n => [](frame_number[s] <= n + 1))
    /\ [][\A s \in Cameras :
            Stopping(s) /\ spc'[s] # spc[s] /\ spc'[s] \in {"rc_sleep", "rc_open"}
            => spc[s] = "rc_sleep" /\ spc'[s] = "rc_open"]_vars

\* The signal is set while a read is in flight whose frame will pass the gate.
C31_Witness ==
    \E s \in Cameras :
        /\ Stopping(s) /\ spc[s] = "read" /\ cap[s] = "open"
        /\ frame_number[s] >= 1
        /\ (clock - last_output_time[s]) * FPS >= TicksPerSecond


\* the positions of a streamer in which no frame is being read or processed
NoFrameInHand == {"rc_sleep", "rc_open", "loop", "cleanup", "stopped"}

\* C32: when the shutdown signal is set while a streamer is reconnecting, in
\* the backoff sleep or in the reopening, the streamer reads no frame and
\* emits none from then on, whether the reopening succeeds or not, and it ends
\* stopped: the signal stays set, and with it set the streamer moves from the
\* sleep and the reopening only to positions without a frame, its counter
\* unchanged.
C32_ShutdownWhileReconnecting ==
    /\ [][\A s \in Cameras :
            Stopping(s) /\ spc[s] \in NoFrameInHand
            => /\ Stopping(s)'
               /\ spc'[s] \in NoFrameInHand
               /\ frame_number'[s] = frame_number[s]
               /\ emitTimes'[s] = emitTimes[s]]_vars
    /\ \A s \in Cameras : (Stopping(s) /\ Reconnecting(s)) ~> (spc[s] = "stopped")

\* The signal is set and the reopening that follows the backoff sleep is in
\* progress, in a run that has emitted a frame.
C32_Witness ==
    \E s \in Cameras :
        /\ Stopping(s) /\ spc[s] = "rc_open" /\ cap[s] = "released"
        /\ frame_number[s] >= 1


Matching ==
    OrderByTimestamp(records,
                     {i \in 1..Len(records) :
                         /\ TextLeq(call[3], records[i].timestamp)
                         /\ TextLeq(records[i].timestamp, call[4])})

\* C34: for every limit given to get_detections_by_timerange, 0 included, the
\* result has at most limit records and is the first limit records of the
\* ascending ordering of the matching records.
C34_LimitCapsAfterOrdering ==
    (call[1] = "get_detections_by_timerange" /\ call[5] # <<>>)
    => /\ Len(result) <= call[5][1]
       /\ Len(result) = Min(call[5][1], Len(Matching))
       /\ \A k \in 1..Len(result) : result[k].id = records[Matching[k]].id


\* ------------------------------------------------------- conservation claims
\* the tasks that hold a connection of the pool
HoldingTasks == {t \in Tasks : tconn[t] # 0}

\* C35: from the completion of initialize() until close() is called, whatever
\* the interleaving of acquisitions and of releases by return and by
\* exception, the idle connections and the held ones are max_connections
\* together, and no connection is idle and held, idle twice, or held by two
\* callers.
C35_PoolConservation ==
    (initialized /\ closeCalls = 0)
    => /\ Len(pool) + Cardinality(HoldingTasks) = max_connections
       /\ \A i, j \in 1..Len(pool) : pool[i] = pool[j] => i = j
       /\ \A t \in HoldingTasks : tconn[t] \notin SeqToSet(pool)
       /\ \A t, u \in HoldingTasks : tconn[t] = tconn[u] => t = u
       /\ SeqToSet(pool) \cup {tconn[t] : t \in HoldingTasks} = open

\* Before any close(): one task's scope has ended on an exception, a second
\* task holds a connection, and a third, which found the queue empty, has not
\* yet been resumed to take the one that came back.
C35_Witness ==
    \E t1, t2, t3 \in Tasks :
        /\ initialized /\ closeCalls = 0
        /\ raised[t1] /\ tpc[t1] = "idle"
        /\ tpc[t2] = "holding" /\ tconn[t2] # 0
        /\ tpc[t3] = "get" /\ pool # <<>>


\* the tasks inside a get_connection() scope with a connection to give back
\* (both names below are about callers of get_connection only)
ScopeHolders == {t \in Tasks : tpc[t] \in {"holding", "put"}}

\* C36: giving a held connection back never waits: in every state the idle
\* queue has room for all the connections that are held, and no caller is
\* suspended in the put of its scope's exit.
C36_RoomForHeld ==
    /\ Len(pool) + Cardinality(ScopeHolders) <= max_connections
    /\ \A t \in Tasks : tpc[t] # "put"


\* C37: after an initialize() that failed part-way, a later initialize() or
\* acquisition on the same pool comes to its end and does not stay blocked
\* with the initialization lock in its hands: before any close(), whoever
\* holds the lock gives it up again.
C37_LaterInitializeTerminates ==
    \A t \in Tasks : (closeCalls = 0 /\ lockHolder = t) ~> (lockHolder # t)


\* ------------------------------------------------------ worker start claims
\* C38: when the stream of a camera cannot be opened as its worker starts, the
\* worker ends in that step with no sink started and no streamer made, nothing
\* happens for that camera afterwards (no reconnect attempt, no wait, no
\* frame), and the step changes nothing of the other cameras' workers, of the
\* shutdown event, of the pool or of the supervisor.
C38_FailedOpenEndsWorker ==
    [][\A s \in Cameras :
          /\ spc[s] = "opening" /\ spc'[s] # "opening" /\ cap'[s] # "open"
             => /\ spc'[s] = "stopped"
                /\ process'[s] = "none" /\ ffmpeg_threads'[s] = "none"
                /\ \A u \in Cameras \ {s} : OwnState(u)' = OwnState(u)
                /\ shutdown_event' = shutdown_event /\ mpc' = mpc
                /\ pool' = pool /\ open' = open
          /\ spc[s] = "stopped" /\ cap[s] = "unopened"
             => OwnState(s)' = OwnState(s)]_vars

\* The first camera's worker has ended on a stream that did not open, with
\* no sink, no wait and no frame, the supervisor has joined it, and the second
\* camera's worker is storing its first frame.
C38_Witness ==
    /\ NCams >= 2
    /\ spc[1] = "stopped" /\ cap[1] = "unopened" /\ process[1] = "none"
    /\ waits[1] = <<>> /\ frame_number[1] = 0
    /\ mpc = <<"join", 2>>
    /\ spc[2] = "saving" /\ frame_number[2] = 1


\* ------------------------------------------------------------ handle claims
\* C39: a streamer never owns two unreleased capture handles: a new handle is
\* made only in the reopening of a reconnect attempt, and only when the handle
\* it replaces has been released; a handle that is open or failed to open is
\* left only by being released; and in STOPPED the handle is released, the
\* one of a failed reopening included.
C39_OneHandle ==
    /\ \A s \in Cameras : [](spc[s] = "stopped" => cap[s] = "released")
    /\ [][\A s \in Cameras :
            /\ cap[s] = "released" /\ cap'[s] # "released"
               => spc[s] = "rc_open"
            /\ spc[s] = "rc_open" /\ spc'[s] # "rc_open"
               => cap[s] = "released"
            /\ cap[s] \in {"open", "unopened"} /\ cap'[s] # cap[s]
               => cap'[s] = "released" /\ spc'[s] \in {"rc_sleep", "stopped"}]_vars

\* A reopening failed with the shutdown signal set: the streamer is on its way
\* to the cleanup with the handle that did not open, not yet released.
C39_Witness ==
    \E s \in Cameras :
        /\ spc[s] = "cleanup" /\ cap[s] = "unopened" /\ Stopping(s)
        /\ waits[s] # <<>>

====
